---- MODULE Spec2Model ----
(***************************************************************************)
(* A model of the Ferrum interpreter core: the block parser (parser.rs),   *)
(* the statement executor and expression evaluator (eval.rs) and the       *)
(* environment and call protocol (runtime.rs).                             *)
(*                                                                         *)
(* Text is modelled as a sequence of one-character strings, so that the    *)
(* evaluator's re-parsing of expression text (trim, split at an operator,  *)
(* literal recognition) is computed as the code computes it.               *)
(*                                                                         *)
(* Numbers.  Int is an i64; the model's inputs stay far inside its range,  *)
(* so no operation of a modelled run overflows.  Float is an f64, modelled *)
(* as a reduced fraction num/den: on the model's inputs (small dyadic      *)
(* values) +, - and * are exact in f64 and equal the fraction; a quotient  *)
(* stands for the f64 nearest to it.  The sign of a float zero, infinities *)
(* and NaN are not modelled, and float literals are the plain decimal      *)
(* forms (no exponent).                                                    *)
(***************************************************************************)
EXTENDS Integers, Sequences, FiniteSets, TLC

VARIABLES
    mode,     \* which harness the state belongs to
    env,      \* the Environment a script or an expression runs against
    prog,     \* the statement list being run (Vec<Stmt>)
    pc,       \* index of the next statement of prog run_stmts will execute
    out,      \* lines written to stdout so far
    status,   \* "running", "ok" (run_stmts returned Ok) or "failed" (Err)
    input,    \* the input the harness's operation was applied to
    res       \* the result of the harness's last operation

vars == <<mode, env, prog, pc, out, status, input, res>>

(***************************************************************************)
(* Text helpers: str::trim, starts_with, contains, split_once, ...         *)
(***************************************************************************)
IsSpace(c) == c \in {" ", "\t", "\n", "\r"}

RECURSIVE TrimStart(_)
TrimStart(s) ==
    IF s # <<>> /\ IsSpace(Head(s)) THEN TrimStart(Tail(s)) ELSE s

RECURSIVE TrimEnd(_)
TrimEnd(s) ==
    IF s # <<>> /\ IsSpace(s[Len(s)]) THEN TrimEnd(SubSeq(s, 1, Len(s) - 1)) ELSE s

Trim(s) == TrimEnd(TrimStart(s))

StartsWith(s, p) == Len(s) >= Len(p) /\ SubSeq(s, 1, Len(p)) = p

EndsWith(s, p) == Len(s) >= Len(p) /\ SubSeq(s, Len(s) - Len(p) + 1, Len(s)) = p

ContainsChar(s, c) == \E i \in 1..Len(s) : s[i] = c

\* index of the first occurrence of the text p in s, 0 when there is none
FindText(s, p) ==
    LET hits == {i \in 1..(Len(s) - Len(p) + 1) : SubSeq(s, i, i + Len(p) - 1) = p}
    IN  IF hits = {} THEN 0 ELSE CHOOSE i \in hits : \A j \in hits : i <= j

\* index of the last occurrence of the character c in s, 0 when there is none
FindLastChar(s, c) ==
    LET hits == {i \in 1..Len(s) : s[i] = c}
    IN  IF hits = {} THEN 0 ELSE CHOOSE i \in hits : \A j \in hits : i >= j

\* str::split_once(p): the text before and after the first occurrence of p
SplitOnce(s, p) ==
    LET i == FindText(s, p)
    IN  IF i = 0 THEN [found |-> FALSE, l |-> s, r |-> <<>>]
        ELSE [found |-> TRUE, l |-> SubSeq(s, 1, i - 1),
              r |-> SubSeq(s, i + Len(p), Len(s))]

\* str::rsplit_once(c): the text before and after the last occurrence of c
RSplitOnce(s, c) ==
    LET i == FindLastChar(s, c)
    IN  IF i = 0 THEN [found |-> FALSE, l |-> s, r |-> <<>>]
        ELSE [found |-> TRUE, l |-> SubSeq(s, 1, i - 1),
              r |-> SubSeq(s, i + 1, Len(s))]

\* str::split(c): every piece between occurrences of c (always at least one)
RECURSIVE SplitAll(_, _)
SplitAll(s, c) ==
    LET sp == SplitOnce(s, <<c>>)
    IN  IF sp.found THEN <<sp.l>> \o SplitAll(sp.r, c) ELSE <<s>>

\* str::trim_end_matches(c): every trailing c removed
RECURSIVE TrimEndMatches(_, _)
TrimEndMatches(s, c) ==
    IF s # <<>> /\ s[Len(s)] = c THEN TrimEndMatches(SubSeq(s, 1, Len(s) - 1), c)
    ELSE s

\* str::trim_start_matches(p): every leading repetition of the text p removed
RECURSIVE TrimStartMatches(_, _)
TrimStartMatches(s, p) ==
    IF p # <<>> /\ StartsWith(s, p)
    THEN TrimStartMatches(SubSeq(s, Len(p) + 1, Len(s)), p)
    ELSE s

RECURSIVE Join(_, _)
Join(parts, sep) ==
    IF parts = <<>> THEN <<>>
    ELSE IF Len(parts) = 1 THEN parts[1]
    ELSE parts[1] \o sep \o Join(Tail(parts), sep)

(***************************************************************************)
(* Maps (HashMap<String, _>): functions whose domain is a set of names.    *)
(***************************************************************************)
EmptyMap == <<>>

Has(m, k) == k \in DOMAIN m

Put(m, k, v) == [x \in (DOMAIN m) \cup {k} |-> IF x = k THEN v ELSE m[x]]

(***************************************************************************)
(* Numbers: digits, i64 and f64 parsing and rendering.                     *)
(***************************************************************************)
Digits == <<"0", "1", "2", "3", "4", "5", "6", "7", "8", "9">>

IsDigit(c) == \E d \in 1..10 : Digits[d] = c

DigitVal(c) == (CHOOSE d \in 1..10 : Digits[d] = c) - 1

RECURSIVE DigitsVal(_)
DigitsVal(s) ==
    IF s = <<>> THEN 0
    ELSE 10 * DigitsVal(SubSeq(s, 1, Len(s) - 1)) + DigitVal(s[Len(s)])

AllDigits(s) == \A i \in 1..Len(s) : IsDigit(s[i])

RECURSIVE NatToText(_)
NatToText(n) ==
    IF n < 10 THEN <<Digits[n + 1]>>
    ELSE NatToText(n \div 10) \o <<Digits[(n % 10) + 1]>>

\* i64::to_string
IntToText(i) == IF i < 0 THEN <<"-">> \o NatToText(-i) ELSE NatToText(i)

Abs(i) == IF i < 0 THEN -i ELSE i

RECURSIVE Gcd(_, _)
Gcd(a, b) == IF b = 0 THEN a ELSE Gcd(b, a % b)

RECURSIVE Pow10(_)
Pow10(n) == IF n = 0 THEN 1 ELSE 10 * Pow10(n - 1)

\* the sign and the unsigned rest of a numeric literal's text
Unsigned(s) ==
    IF s # <<>> /\ s[1] \in {"+", "-"}
    THEN [neg |-> s[1] = "-", body |-> Tail(s)]
    ELSE [neg |-> FALSE, body |-> s]

\* str::parse::<i64>: an optional sign, then one or more digits
ParseInt(s) ==
    LET u == Unsigned(s)
    IN  IF u.body # <<>> /\ AllDigits(u.body)
        THEN [ok |-> TRUE, i |-> IF u.neg THEN -DigitsVal(u.body) ELSE DigitsVal(u.body)]
        ELSE [ok |-> FALSE, i |-> 0]

\* an f64 as the reduced fraction n/d
MkFloat(n, d) ==
    LET g == Gcd(Abs(n), Abs(d))
        sg == IF d < 0 THEN -1 ELSE 1
    IN  [tag |-> "Float", num |-> sg * (n \div g), den |-> sg * (d \div g)]

\* str::parse::<f64> on the plain decimal forms: an optional sign, digits with at
\* most one '.', and at least one digit ("1", "1.", ".5", "1.5")
ParseFloat(s) ==
    LET u  == Unsigned(s)
        sp == SplitOnce(u.body, <<".">>)
        ip == sp.l
        fp == sp.r
        n  == DigitsVal(ip) * Pow10(Len(fp)) + DigitsVal(fp)
    IN  IF AllDigits(ip) /\ AllDigits(fp) /\ Len(ip) + Len(fp) > 0
        THEN [ok |-> TRUE, f |-> MkFloat(IF u.neg THEN -n ELSE n, Pow10(Len(fp)))]
        ELSE [ok |-> FALSE, f |-> MkFloat(0, 1)]

\* the decimal digits of rem/den after the point: exact when the expansion ends,
\* cut after MaxFracDigits digits otherwise
RECURSIVE FracText(_, _, _)
FracText(rem, den, left) ==
    IF rem = 0 \/ left = 0 THEN <<>>
    ELSE <<Digits[((rem * 10) \div den) + 1]>> \o FracText((rem * 10) % den, den, left - 1)

MaxFracDigits == 6

\* f64::to_string (Display): no exponent, no trailing ".0" ("3.5", "3", "-0.5")
FloatToText(f) ==
    LET a  == Abs(f.num)
        ip == a \div f.den
        fr == FracText(a % f.den, f.den, MaxFracDigits)
    IN  (IF f.num < 0 THEN <<"-">> ELSE <<>>) \o NatToText(ip)
        \o (IF fr = <<>> THEN <<>> ELSE <<".">> \o fr)

(***************************************************************************)
(* Value (runtime.rs): the tagged union of runtime values.                 *)
(***************************************************************************)
VInt(i) == [tag |-> "Int", i |-> i]

VFloat(n, d) == MkFloat(n, d)

VBool(b) == [tag |-> "Bool", b |-> b]

VStr(s) == [tag |-> "Str", s |-> s]

VList(vs) == [tag |-> "List", vs |-> vs]

VDict(m) == [tag |-> "Dict", map |-> m]

VClass(name, methods) == [tag |-> "Class", name |-> name, methods |-> methods]

VInstance(name, fields, methods) ==
    [tag |-> "Instance", name |-> name, fields |-> fields, methods |-> methods]

VNone == [tag |-> "None"]

VRange(s, e) == [tag |-> "Range", start |-> s, end |-> e]

\* Function (runtime.rs): a native callable, named by what it computes, or a user
\* function
Native(id) == [kind |-> "Native", id |-> id]

User(params, body) == [kind |-> "User", params |-> params, body |-> body]

\* Value::is_truthy
IsTruthy(v) ==
    CASE v.tag = "Bool" -> v.b
      [] v.tag = "Int" -> v.i # 0
      [] v.tag = "Float" -> v.num # 0
      [] v.tag = "Str" -> v.s # <<>>
      [] v.tag = "List" -> v.vs # <<>>
      [] v.tag = "Dict" -> DOMAIN v.map # {}
      [] v.tag = "None" -> FALSE
      [] OTHER -> TRUE

\* Value::to_string
RECURSIVE ToText(_)
ToText(v) ==
    CASE v.tag = "Int" -> IntToText(v.i)
      [] v.tag = "Float" -> FloatToText(v)
      [] v.tag = "Bool" -> IF v.b THEN <<"t","r","u","e">> ELSE <<"f","a","l","s","e">>
      [] v.tag = "Str" -> v.s
      [] v.tag = "List" ->
            <<"[">> \o Join([k \in 1..Len(v.vs) |-> ToText(v.vs[k])], <<","," ">>) \o <<"]">>
      [] v.tag = "Dict" -> <<"{",".",".",".","}">>
      [] v.tag = "Class" -> <<"<","c","l","a","s","s"," ">> \o v.name \o <<">">>
      [] v.tag = "Instance" -> <<"<","i","n","s","t","a","n","c","e"," ">> \o v.name \o <<">">>
      [] v.tag = "None" -> <<"N","o","n","e">>
      [] v.tag = "Range" ->
            <<"r","a","n","g","e","(">> \o IntToText(v.start) \o <<","," ">> \o IntToText(v.end) \o <<")">>

(***************************************************************************)
(* Stmt (eval.rs) and the block parser (parser.rs).                        *)
(***************************************************************************)
SPrint(expr) == [kind |-> "Print", expr |-> expr]

SAssign(lhs, rhs) == [kind |-> "Assign", lhs |-> lhs, rhs |-> rhs]

SExpr(expr) == [kind |-> "Expr", expr |-> expr]

SIf(branches, else_block) ==
    [kind |-> "If", branches |-> branches, else_block |-> else_block]

SElse(body) == [kind |-> "Else", body |-> body]

SWhile(cond, body) == [kind |-> "While", cond |-> cond, body |-> body]

SFor(header, body) == [kind |-> "For", header |-> header, body |-> body]

SDef(sig, body) == [kind |-> "Def", sig |-> sig, body |-> body]

SClass(name, body) == [kind |-> "Class", name |-> name, body |-> body]

SBlock(header, body) == [kind |-> "Block", header |-> header, body |-> body]

SReturn(expr) == [kind |-> "Return", expr |-> expr]

SImport(name) == [kind |-> "Import", name |-> name]

\* str::lines: the text between line feeds, a "\r" before a line feed dropped, and
\* no last empty line after a final line feed
RECURSIVE SourceLines(_)
SourceLines(src) ==
    LET sp == SplitOnce(src, <<"\n">>)
    IN  IF ~sp.found THEN (IF src = <<>> THEN <<>> ELSE <<src>>)
        ELSE <<IF EndsWith(sp.l, <<"\r">>) THEN SubSeq(sp.l, 1, Len(sp.l) - 1) ELSE sp.l>>
             \o SourceLines(sp.r)

RECURSIVE LeadingSpaces(_)
LeadingSpaces(s) ==
    IF s # <<>> /\ Head(s) = " " THEN 1 + LeadingSpaces(Tail(s)) ELSE 0

\* parse_to_ast, lines 31-40: the (indent, text) pairs of the non-blank lines
RECURSIVE IndentedLines(_)
IndentedLines(ls) ==
    IF ls = <<>> THEN <<>>
    ELSE LET s == Head(ls)
             indent == LeadingSpaces(s)
         IN  (IF Trim(s) = <<>> THEN <<>>
              ELSE <<[indent |-> indent, text |-> SubSeq(s, indent + 1, Len(s))]>>)
             \o IndentedLines(Tail(ls))

\* the text after the first space of a header ("if c" -> "c")
AfterFirstSpace(header) ==
    LET sp == SplitOnce(header, <<" ">>)
    IN  IF sp.found THEN sp.r ELSE <<"t","r","u","e">>

\* parse_block, lines 60-83: the statement a header and its body make
ClassifyHeader(header, body) ==
    IF StartsWith(header, <<"i","f"," ">>) \/ StartsWith(header, <<"e","l","i","f"," ">>)
    THEN SIf(<<[cond |-> AfterFirstSpace(header), body |-> body]>>, <<>>)
    ELSE IF StartsWith(header, <<"e","l","s","e">>) THEN SElse(body)
    ELSE IF StartsWith(header, <<"w","h","i","l","e"," ">>) THEN SWhile(AfterFirstSpace(header), body)
    ELSE IF StartsWith(header, <<"f","o","r"," ">>)
    THEN SFor(TrimStartMatches(header, <<"f","o","r"," ">>), body)
    ELSE IF StartsWith(header, <<"d","e","f"," ">>)
    THEN SDef(TrimStartMatches(header, <<"d","e","f"," ">>), body)
    ELSE IF StartsWith(header, <<"c","l","a","s","s"," ">>)
    THEN SClass(TrimStartMatches(header, <<"c","l","a","s","s"," ">>), body)
    ELSE SBlock(header, body)

\* parse_simple_statement
ParseSimpleStatement(line) ==
    LET s == Trim(line)
    IN  IF StartsWith(s, <<"p","r","i","n","t","(">>) /\ EndsWith(s, <<")">>)
        THEN SPrint(SubSeq(s, 7, Len(s) - 1))
        ELSE IF StartsWith(s, <<"r","e","t","u","r","n"," ">>) THEN SReturn(SubSeq(s, 8, Len(s)))
        ELSE IF ContainsChar(s, "=")
        THEN LET sp == SplitOnce(s, <<"=">>) IN SAssign(Trim(sp.l), Trim(sp.r))
        ELSE IF StartsWith(s, <<"i","m","p","o","r","t"," ">>)
        THEN SImport(Trim(TrimStartMatches(s, <<"i","m","p","o","r","t"," ">>)))
        ELSE SExpr(s)

\* variant: the body of a header taken from the lines at the header's own
\* indent or deeper
RECURSIVE ParseBlock(_, _)
ParseBlockSameIndent(min_indent, q) ==
    IF q = <<>> \/ q[1].indent < min_indent THEN [stmts |-> <<>>, rest |-> q]
    ELSE LET indent == q[1].indent
             line == q[1].text
         IN  IF StartsWith(TrimStart(line), <<"#">>) THEN ParseBlock(min_indent, Tail(q))
             ELSE IF EndsWith(line, <<":">>)
             THEN LET header == TrimEndMatches(line, ":")
                      b == ParseBlock(indent, Tail(q))
                      more == ParseBlock(min_indent, b.rest)
                  IN  [stmts |-> <<ClassifyHeader(header, b.stmts)>> \o more.stmts,
                       rest |-> more.rest]
             ELSE LET more == ParseBlock(min_indent, Tail(q))
                  IN  [stmts |-> <<ParseSimpleStatement(line)>> \o more.stmts,
                       rest |-> more.rest]

\* variant: the line that ends a block body is dropped
ParseBlockSkipsAfterBody(min_indent, q) ==
    IF q = <<>> \/ q[1].indent < min_indent THEN [stmts |-> <<>>, rest |-> q]
    ELSE LET indent == q[1].indent
             line == q[1].text
         IN  IF StartsWith(TrimStart(line), <<"#">>) THEN ParseBlock(min_indent, Tail(q))
             ELSE IF EndsWith(line, <<":">>)
             THEN LET header == TrimEndMatches(line, ":")
                      b == ParseBlock(indent + 1, Tail(q))
                      more == ParseBlock(min_indent, IF b.rest = <<>> THEN <<>> ELSE Tail(b.rest))
                  IN  [stmts |-> <<ClassifyHeader(header, b.stmts)>> \o more.stmts,
                       rest |-> more.rest]
             ELSE LET more == ParseBlock(min_indent, Tail(q))
                  IN  [stmts |-> <<ParseSimpleStatement(line)>> \o more.stmts,
                       rest |-> more.rest]

\* parse_block: the statements of the lines at the front of q whose indent is at
\* least min_indent, and the lines left over
ParseBlock(min_indent, q) ==
    IF q = <<>> \/ q[1].indent < min_indent THEN [stmts |-> <<>>, rest |-> q]
    ELSE LET indent == q[1].indent
             line == q[1].text
         IN  IF StartsWith(TrimStart(line), <<"#">>) THEN ParseBlock(min_indent, Tail(q))
             ELSE IF EndsWith(line, <<":">>)
             THEN LET header == TrimEndMatches(line, ":")
                      b == ParseBlock(indent + 1, Tail(q))
                      more == ParseBlock(min_indent, b.rest)
                  IN  [stmts |-> <<ClassifyHeader(header, b.stmts)>> \o more.stmts,
                       rest |-> more.rest]
             ELSE LET more == ParseBlock(min_indent, Tail(q))
                  IN  [stmts |-> <<ParseSimpleStatement(line)>> \o more.stmts,
                       rest |-> more.rest]

\* parse_to_ast: the body of the ModuleAST (the parser never fails)
ParseToAst(src) == ParseBlock(0, IndentedLines(SourceLines(src))).stmts

\* parse_to_ast as a Result: every path of parse_to_ast, parse_block and
\* parse_simple_statement ends in Ok
ParseResult(src) == [ok |-> TRUE, body |-> ParseToAst(src)]

\* check.rs 53-84, check_script: the errors of the CheckResult (the four checks
\* after the parse only push warnings)
CheckScript(source) ==
    LET p == ParseResult(source)
    IN  IF ~p.ok
        THEN [errors |-> <<[line |-> 1, column |-> 0, code |-> "E001"]>>]
        ELSE [errors |-> <<>>]

(***************************************************************************)
(* Env (runtime.rs): variables, functions and loaded modules of one frame. *)
(***************************************************************************)
\* Env::new
NewEnv == [vars |-> EmptyMap, funcs |-> EmptyMap, modules |-> EmptyMap]

\* Env::set
EnvSet(e, name, val) == [e EXCEPT !.vars = Put(e.vars, name, val)]

\* Env::set_func
EnvSetFunc(e, name, f) == [e EXCEPT !.funcs = Put(e.funcs, name, f)]

\* Env::set_attr: the field of an Instance or the entry of a Dict bound to obj
SetAttr(e, obj, attr, val) ==
    IF Has(e.vars, obj) /\ e.vars[obj].tag = "Instance"
    THEN [ok |-> TRUE,
          env |-> EnvSet(e, obj, [e.vars[obj] EXCEPT !.fields = Put(@, attr, val)])]
    ELSE IF Has(e.vars, obj) /\ e.vars[obj].tag = "Dict"
    THEN [ok |-> TRUE,
          env |-> EnvSet(e, obj, [e.vars[obj] EXCEPT !.map = Put(@, attr, val)])]
    ELSE [ok |-> FALSE, env |-> e]

(***************************************************************************)
(* The native functions of register_stdlib that the model's scripts use.   *)
(***************************************************************************)
ArgTag(args, k) == IF Len(args) >= k THEN args[k].tag ELSE "absent"

NativeApply(id, args) ==
    CASE id = "range" ->
            IF Len(args) = 1
            THEN (IF ArgTag(args, 1) = "Int" THEN VRange(0, args[1].i) ELSE VRange(0, 0))
            ELSE IF Len(args) >= 2
            THEN (IF ArgTag(args, 1) = "Int" /\ ArgTag(args, 2) = "Int"
                  THEN VRange(args[1].i, args[2].i) ELSE VRange(0, 0))
            ELSE VRange(0, 0)
      [] id = "len" ->
            IF ArgTag(args, 1) = "Str" THEN VInt(Len(args[1].s))
            ELSE IF ArgTag(args, 1) = "List" THEN VInt(Len(args[1].vs))
            ELSE VInt(0)
      [] id = "str" ->
            IF ArgTag(args, 1) \in {"Str", "Int", "Float", "Bool"}
            THEN VStr(ToText(args[1])) ELSE VStr(<<>>)
      [] id = "abs" ->
            IF ArgTag(args, 1) = "Int" THEN VInt(Abs(args[1].i))
            ELSE IF ArgTag(args, 1) = "Float" THEN MkFloat(Abs(args[1].num), args[1].den)
            ELSE VInt(0)

\* register_stdlib, restricted to the natives above, and the argv variable
StdlibEnv ==
    [vars |-> (<<"a","r","g","v">> :> VList(<<>>)),
     funcs |-> (<<"r","a","n","g","e">> :> Native("range")) @@ (<<"l","e","n">> :> Native("len"))
               @@ (<<"s","t","r">> :> Native("str")) @@ (<<"a","b","s">> :> Native("abs")),
     modules |-> EmptyMap]

\* the files import_module can find in the working directory: path -> contents
Files ==
    (<<"m",".","f","m">> :> <<"k"," ","="," ","7","\n","p","r","i","n","t","(","k",")">>)
    @@ (<<"u","s","e","s","x",".","f","m">> :> <<"p","r","i","n","t","(","x",")">>)
    @@ (<<"u","s","e","s","f",".","f","m">> :> <<"f","(",")">>)
    @@ (<<"n","a","t","i","v","e","s",".","f","m">> :> <<"n"," ","="," ","l","e","n","(","s","t","r","(","1","2",")",")">>)
    @@ (<<"d","e","f","s",".","f","m">> :> <<"d","e","f"," ","g","(",")",":","\n"," "," "," "," ","p","r","i","n","t","(","1",")","\n","y"," ","="," ","2","\n","g","(",")">>)

(***************************************************************************)
(* eval_expr: split_top_level and the operators' value tables.             *)
(***************************************************************************)
\* split_top_level's scan: the index of the first op at parenthesis depth 0 and
\* outside double quotes, 0 when there is none
RECURSIVE ScanTopLevel(_, _, _, _, _, _)
ScanTopLevel(s, op, i, depth, in_quote, prev) ==
    IF i > Len(s) THEN 0
    ELSE LET c == s[i]
             q == IF c = "\"" /\ prev # "\\" THEN ~in_quote ELSE in_quote
         IN  IF q THEN ScanTopLevel(s, op, i + 1, depth, q, c)
             ELSE IF c = "(" THEN ScanTopLevel(s, op, i + 1, depth + 1, q, c)
             ELSE IF c = ")"
             THEN ScanTopLevel(s, op, i + 1, IF depth > 0 THEN depth - 1 ELSE 0, q, c)
             ELSE IF c = op /\ depth = 0 THEN i
             ELSE ScanTopLevel(s, op, i + 1, depth, q, c)

\* variant: the split taken at the last occurrence of op
SplitTopLevelLast(s, op) ==
    LET idx == {i \in 1..Len(s) : s[i] = op}
        last == CHOOSE i \in idx : \A j \in idx : j <= i
    IN  IF idx = {} THEN [found |-> FALSE, l |-> <<>>, r |-> <<>>]
        ELSE [found |-> TRUE, l |-> Trim(SubSeq(s, 1, last - 1)),
              r |-> Trim(SubSeq(s, last + 1, Len(s)))]

SplitTopLevel(s, op) ==
    LET i == ScanTopLevel(s, op, 1, 0, FALSE, "")
    IN  IF i = 0 THEN [found |-> FALSE, l |-> <<>>, r |-> <<>>]
        ELSE [found |-> TRUE, l |-> Trim(SubSeq(s, 1, i - 1)),
              r |-> Trim(SubSeq(s, i + 1, Len(s)))]

\* f64 arithmetic on fractions; `i as f64`
FAdd(a, b) == MkFloat(a.num * b.den + b.num * a.den, a.den * b.den)

FSub(a, b) == MkFloat(a.num * b.den - b.num * a.den, a.den * b.den)

FMul(a, b) == MkFloat(a.num * b.num, a.den * b.den)

FDiv(a, b) == MkFloat(a.num * b.den, a.den * b.num)

AsFloat(v) == MkFloat(v.i, 1)

\* i64 division truncates toward zero
TruncDiv(a, b) ==
    (IF (a < 0) # (b < 0) THEN -1 ELSE 1) * (Abs(a) \div Abs(b))

IsNum(v) == v.tag \in {"Int", "Float"}

\* AddValues without its last arm
AddValuesNoFallback(lv, rv) ==
    IF lv.tag = "Str" THEN VStr(lv.s \o ToText(rv))
    ELSE IF rv.tag = "Str" THEN VStr(ToText(lv) \o rv.s)
    ELSE IF lv.tag = "Int" /\ rv.tag = "Int" THEN VInt(lv.i + rv.i)
    ELSE IF lv.tag = "Float" /\ rv.tag = "Float" THEN FAdd(lv, rv)
    ELSE IF lv.tag = "Int" /\ rv.tag = "Float" THEN FAdd(AsFloat(lv), rv)
    ELSE IF lv.tag = "Float" /\ rv.tag = "Int" THEN FAdd(lv, AsFloat(rv))
    ELSE VNone

\* eval.rs 211-220: the match of the + step
AddValues(lv, rv) ==
    IF lv.tag = "Str" /\ rv.tag = "Str" THEN VStr(lv.s \o rv.s)
    ELSE IF lv.tag = "Str" THEN VStr(lv.s \o ToText(rv))
    ELSE IF rv.tag = "Str" THEN VStr(ToText(lv) \o rv.s)
    ELSE IF lv.tag = "Int" /\ rv.tag = "Int" THEN VInt(lv.i + rv.i)
    ELSE IF lv.tag = "Float" /\ rv.tag = "Float" THEN FAdd(lv, rv)
    ELSE IF lv.tag = "Int" /\ rv.tag = "Float" THEN FAdd(AsFloat(lv), rv)
    ELSE IF lv.tag = "Float" /\ rv.tag = "Int" THEN FAdd(lv, AsFloat(rv))
    ELSE VStr(ToText(lv) \o ToText(rv))

\* SubValues without the promotion of a mixed Int/Float pair
SubValuesNoMixed(lv, rv) ==
    IF lv.tag = "Int" /\ rv.tag = "Int" THEN [matched |-> TRUE, val |-> VInt(lv.i - rv.i)]
    ELSE IF lv.tag = "Float" /\ rv.tag = "Float"
    THEN [matched |-> TRUE, val |-> FSub(lv, rv)]
    ELSE [matched |-> FALSE, val |-> VNone]

\* eval.rs 229-235: the match of the - step; matched is FALSE in the `_ => {}` arm
SubValues(lv, rv) ==
    IF lv.tag = "Int" /\ rv.tag = "Int" THEN [matched |-> TRUE, val |-> VInt(lv.i - rv.i)]
    ELSE IF lv.tag = "Float" /\ rv.tag = "Float"
    THEN [matched |-> TRUE, val |-> FSub(lv, rv)]
    ELSE IF lv.tag = "Int" /\ rv.tag = "Float"
    THEN [matched |-> TRUE, val |-> FSub(AsFloat(lv), rv)]
    ELSE IF lv.tag = "Float" /\ rv.tag = "Int"
    THEN [matched |-> TRUE, val |-> FSub(lv, AsFloat(rv))]
    ELSE [matched |-> FALSE, val |-> VNone]

\* eval.rs 243-249: the match of the * step
MulValues(lv, rv) ==
    IF lv.tag = "Int" /\ rv.tag = "Int" THEN [matched |-> TRUE, val |-> VInt(lv.i * rv.i)]
    ELSE IF lv.tag = "Float" /\ rv.tag = "Float"
    THEN [matched |-> TRUE, val |-> FMul(lv, rv)]
    ELSE IF lv.tag = "Int" /\ rv.tag = "Float"
    THEN [matched |-> TRUE, val |-> FMul(AsFloat(lv), rv)]
    ELSE IF lv.tag = "Float" /\ rv.tag = "Int"
    THEN [matched |-> TRUE, val |-> FMul(lv, AsFloat(rv))]
    ELSE [matched |-> FALSE, val |-> VNone]

\* DivValues with the zero check on the Int/Int arm only
DivValuesIntCheckOnly(lv, rv) ==
    IF lv.tag = "Int" /\ rv.tag = "Int"
    THEN (IF rv.i = 0 THEN [matched |-> TRUE, ok |-> FALSE, val |-> VNone]
          ELSE [matched |-> TRUE, ok |-> TRUE, val |-> VInt(TruncDiv(lv.i, rv.i))])
    ELSE IF IsNum(lv) /\ IsNum(rv) /\ (IF rv.tag = "Int" THEN rv.i # 0 ELSE rv.num # 0)
    THEN [matched |-> TRUE, ok |-> TRUE,
          val |-> FDiv(IF lv.tag = "Int" THEN AsFloat(lv) ELSE lv,
                       IF rv.tag = "Int" THEN AsFloat(rv) ELSE rv)]
    ELSE [matched |-> FALSE, ok |-> TRUE, val |-> VNone]

\* eval.rs 256-282: the match of the / step; ok is FALSE where it returns
\* Err("Division by zero")
DivValues(lv, rv) ==
    IF lv.tag = "Int" /\ rv.tag = "Int"
    THEN (IF rv.i = 0 THEN [matched |-> TRUE, ok |-> FALSE, val |-> VNone]
          ELSE [matched |-> TRUE, ok |-> TRUE, val |-> VInt(TruncDiv(lv.i, rv.i))])
    ELSE IF lv.tag = "Float" /\ rv.tag = "Float"
    THEN (IF rv.num = 0 THEN [matched |-> TRUE, ok |-> FALSE, val |-> VNone]
          ELSE [matched |-> TRUE, ok |-> TRUE, val |-> FDiv(lv, rv)])
    ELSE IF lv.tag = "Int" /\ rv.tag = "Float"
    THEN (IF rv.num = 0 THEN [matched |-> TRUE, ok |-> FALSE, val |-> VNone]
          ELSE [matched |-> TRUE, ok |-> TRUE, val |-> FDiv(AsFloat(lv), rv)])
    ELSE IF lv.tag = "Float" /\ rv.tag = "Int"
    THEN (IF rv.i = 0 THEN [matched |-> TRUE, ok |-> FALSE, val |-> VNone]
          ELSE [matched |-> TRUE, ok |-> TRUE, val |-> FDiv(lv, AsFloat(rv))])
    ELSE [matched |-> FALSE, ok |-> TRUE, val |-> VNone]

(***************************************************************************)
(* Results.  eval_expr and Env::call return Result<Value>: ok, the value   *)
(* or the error, the lines printed on the way, and the rule of eval_expr   *)
(* whose code returned; a call that ran a user body also records frame,    *)
(* the child Environment the body was started in.  exec_stmt and run_stmts *)
(* return ok or the error, with the Environment as they left it;           *)
(* exec_stmt's Option<Value> is ret.                                       *)
(***************************************************************************)
NoFrame == [none |-> TRUE]

EOk(v, o, rule) ==
    [ok |-> TRUE, val |-> v, err |-> "", out |-> o, rule |-> rule, frame |-> NoFrame]

EErr(msg, o, rule) ==
    [ok |-> FALSE, val |-> VNone, err |-> msg, out |-> o, rule |-> rule, frame |-> NoFrame]

NoRet == [some |-> FALSE, val |-> VNone]

SOk(e, o) == [ok |-> TRUE, env |-> e, out |-> o, err |-> "", ret |-> NoRet]

SErr(e, o, msg) == [ok |-> FALSE, env |-> e, out |-> o, err |-> msg, ret |-> NoRet]

(***************************************************************************)
(* The frames of the call protocol.                                        *)
(***************************************************************************)
SelfName == <<"s","e","l","f">>

InitName == <<"_","_","i","n","i","t","_","_">>

\* runtime.rs 107-115: parameter k is bound to argument k, or to None
RECURSIVE BindByPosition(_, _, _, _)
BindByPosition(child, params, args, k) ==
    IF k > Len(params) THEN child
    ELSE BindByPosition(
            EnvSet(child, params[k], IF k <= Len(args) THEN args[k] ELSE VNone),
            params, args, k + 1)

\* a frame that starts from the registered natives instead of Env::new()
FunctionFrameWithStdlib(params, args) == BindByPosition(StdlibEnv, params, args, 1)

FunctionFrame(params, args) == BindByPosition(NewEnv, params, args, 1)

\* eval.rs 354-363: self is bound; a parameter named self is passed over, and
\* parameter k (counting self) is bound to argument k, or to None
RECURSIVE BindMethodParams(_, _, _, _)
BindMethodParams(child, params, args, k) ==
    IF k > Len(params) THEN child
    ELSE IF params[k] = SelfName THEN BindMethodParams(child, params, args, k + 1)
    ELSE BindMethodParams(
            EnvSet(child, params[k], IF k <= Len(args) THEN args[k] ELSE VNone),
            params, args, k + 1)

\* variant: the frame of a method call without the receiver bound to self
MethodFrameNoSelf(obj, params, args) == BindMethodParams(NewEnv, params, args, 1)

MethodFrame(obj, params, args) ==
    BindMethodParams(EnvSet(NewEnv, SelfName, obj), params, args, 1)

\* eval.rs 378-383: a method called on the Class value: no self, and a parameter
\* without an argument stays unbound
RECURSIVE BindStaticParams(_, _, _, _)
BindStaticParams(child, params, args, k) ==
    IF k > Len(params) THEN child
    ELSE BindStaticParams(
            IF k <= Len(args) THEN EnvSet(child, params[k], args[k]) ELSE child,
            params, args, k + 1)

StaticFrame(params, args) == BindStaticParams(NewEnv, params, args, 1)

\* runtime.rs 138-150: the parameters of __init__ other than self take the
\* arguments in order (ai counts the arguments used), or None
RECURSIVE BindInitParams(_, _, _, _, _)
BindInitParams(child, params, args, k, ai) ==
    IF k > Len(params) THEN child
    ELSE IF params[k] = SelfName THEN BindInitParams(child, params, args, k + 1, ai)
    ELSE BindInitParams(
            EnvSet(child, params[k], IF ai <= Len(args) THEN args[ai] ELSE VNone),
            params, args, k + 1, ai + 1)

\* the frame of __init__ bound as eval.rs 356-363 binds a method's parameters
InitFrameByIndex(instance, params, args) ==
    BindMethodParams(EnvSet(NewEnv, SelfName, instance), params, args, 1)

InitFrame(instance, params, args) ==
    BindInitParams(EnvSet(NewEnv, SelfName, instance), params, args, 1, 1)

\* eval.rs 138-142: the trimmed, non-empty parameter names of "a, b)"
RECURSIVE NonEmptyTrimmed(_)
NonEmptyTrimmed(pieces) ==
    IF pieces = <<>> THEN <<>>
    ELSE (IF Trim(Head(pieces)) = <<>> THEN <<>> ELSE <<Trim(Head(pieces))>>)
         \o NonEmptyTrimmed(Tail(pieces))

ParamNames(args) == NonEmptyTrimmed(SplitAll(TrimEndMatches(args, ")"), ","))

\* eval.rs 153-168: the method table a class body defines
RECURSIVE ClassMethods(_)
ClassMethods(body) ==
    IF body = <<>> THEN EmptyMap
    ELSE LET st == body[Len(body)]
             before == ClassMethods(SubSeq(body, 1, Len(body) - 1))
             sp == IF st.kind = "Def" THEN SplitOnce(st.sig, <<"(">>)
                   ELSE [found |-> FALSE]
         IN  IF sp.found THEN Put(before, Trim(sp.l), User(ParamNames(sp.r), st.body))
             ELSE before

\* eval.rs 302-322: the attribute read obj.attr
AttrRead(s, e) ==
    LET sp == RSplitOnce(s, ".")
        obj == Trim(sp.l)
        attr == Trim(sp.r)
        v == e.vars[obj]
    IN  IF ~(ContainsChar(s, ".") /\ ~ContainsChar(s, "(") /\ Has(e.vars, obj))
        THEN [found |-> FALSE, val |-> VNone]
        ELSE IF v.tag = "Instance" /\ Has(v.fields, attr)
        THEN [found |-> TRUE, val |-> v.fields[attr]]
        ELSE IF v.tag = "Dict" /\ Has(v.map, attr)
        THEN [found |-> TRUE, val |-> v.map[attr]]
        ELSE [found |-> FALSE, val |-> VNone]

\* runtime.rs 172: the path of a module
ModulePath(name) == IF EndsWith(name, <<".","f","m">>) THEN name ELSE name \o <<".","f","m">>

\* variant: a function name keeps its Str entry when a variable has its name
PseudoModuleFunctionsWin(e) ==
    [k \in (DOMAIN e.funcs) \cup (DOMAIN e.vars) |->
        IF Has(e.funcs, k) THEN VStr(k) ELSE e.vars[k]]

\* runtime.rs 178-186: the pseudo-module of a missing file: every function name
\* as a Str of itself, then every variable (a variable wins over a function)
PseudoModule(e) ==
    [k \in (DOMAIN e.funcs) \cup (DOMAIN e.vars) |->
        IF Has(e.vars, k) THEN e.vars[k] ELSE VStr(k)]

(***************************************************************************)
(* eval_expr, Env::call, exec_stmt, run_stmts, Env::import_module.         *)
(***************************************************************************)
\* Calls among the functions below go through Interp, the one recursive
\* operator: eval_expr(expr, e) is a call of EvalExpr(expr, e), and so on.
RECURSIVE Interp(_)

eval_expr(a, b) == Interp([f |-> "EvalExpr", a |-> <<a, b>>])

eval_operands(a, b) == Interp([f |-> "EvalOperands", a |-> <<a, b>>])

eval_sub(a, b, c) == Interp([f |-> "EvalSub", a |-> <<a, b, c>>])

eval_mul(a, b, c) == Interp([f |-> "EvalMul", a |-> <<a, b, c>>])

eval_div(a, b, c) == Interp([f |-> "EvalDiv", a |-> <<a, b, c>>])

eval_atom(a, b, c) == Interp([f |-> "EvalAtom", a |-> <<a, b, c>>])

eval_args(a, b) == Interp([f |-> "EvalArgs", a |-> <<a, b>>])

eval_call(a, b, c) == Interp([f |-> "EvalCall", a |-> <<a, b, c>>])

method_call(a, b, c, d) == Interp([f |-> "MethodCall", a |-> <<a, b, c, d>>])

run_body(a, b) == Interp([f |-> "RunBody", a |-> <<a, b>>])

env_call(a, b, c) == Interp([f |-> "Call", a |-> <<a, b, c>>])

construct(a, b) == Interp([f |-> "Construct", a |-> <<a, b>>])

exec_stmt(a, b) == Interp([f |-> "ExecStmt", a |-> <<a, b>>])

run_stmts(a, b) == Interp([f |-> "RunStmts", a |-> <<a, b>>])

if_branches(a, b, c, d) == Interp([f |-> "IfBranches", a |-> <<a, b, c, d>>])

while_loop(a, b, c, d) == Interp([f |-> "WhileLoop", a |-> <<a, b, c, d>>])

for_loop(a, b, c, d, e) == Interp([f |-> "ForLoop", a |-> <<a, b, c, d, e>>])

import_module(a, b) == Interp([f |-> "ImportModule", a |-> <<a, b>>])


\* both sides of a split, left first; the right side is not evaluated when the
\* left one fails
EvalOperands(sp, e) ==
    LET lv == eval_expr(sp.l, e)
        rv == eval_expr(sp.r, e)
    IN  IF ~lv.ok THEN [ok |-> FALSE, err |-> lv.err, out |-> lv.out,
                        lv |-> VNone, rv |-> VNone]
        ELSE IF ~rv.ok THEN [ok |-> FALSE, err |-> rv.err, out |-> lv.out \o rv.out,
                             lv |-> VNone, rv |-> VNone]
        ELSE [ok |-> TRUE, err |-> "", out |-> lv.out \o rv.out,
              lv |-> lv.val, rv |-> rv.val]

\* eval.rs 184-221: trim, then the + step
EvalExpr(expr, e) ==
    LET s == Trim(expr)
        sp == SplitTopLevel(s, "+")
        ops == eval_operands(sp, e)
    IN  IF sp.found
        THEN (IF ~ops.ok THEN EErr(ops.err, ops.out, "add")
              ELSE EOk(AddValues(ops.lv, ops.rv), ops.out, "add"))
        ELSE eval_sub(s, e, <<>>)

\* the - step failing on operands that are not an Int/Float pair
EvalSubTypeError(s, e, o) ==
    LET sp == SplitTopLevel(s, "-")
        ops == eval_operands(sp, e)
        m == SubValues(ops.lv, ops.rv)
    IN  IF sp.found /\ sp.l # <<>> /\ ~EndsWith(sp.l, <<"(">>)
        THEN (IF ~ops.ok THEN EErr(ops.err, o \o ops.out, "sub")
              ELSE IF m.matched THEN EOk(m.val, o \o ops.out, "sub")
              ELSE EErr("Unsupported operand types", o \o ops.out, "sub"))
        ELSE eval_mul(s, e, o)

\* eval.rs 224-237: the - step
EvalSub(s, e, o) ==
    LET sp == SplitTopLevel(s, "-")
        ops == eval_operands(sp, e)
        m == SubValues(ops.lv, ops.rv)
    IN  IF sp.found /\ sp.l # <<>> /\ ~EndsWith(sp.l, <<"(">>)
        THEN (IF ~ops.ok THEN EErr(ops.err, o \o ops.out, "sub")
              ELSE IF m.matched THEN EOk(m.val, o \o ops.out, "sub")
              ELSE eval_mul(s, e, o \o ops.out))
        ELSE eval_mul(s, e, o)

\* eval.rs 240-250: the * step
EvalMul(s, e, o) ==
    LET sp == SplitTopLevel(s, "*")
        ops == eval_operands(sp, e)
        m == MulValues(ops.lv, ops.rv)
    IN  IF sp.found
        THEN (IF ~ops.ok THEN EErr(ops.err, o \o ops.out, "mul")
              ELSE IF m.matched THEN EOk(m.val, o \o ops.out, "mul")
              ELSE eval_div(s, e, o \o ops.out))
        ELSE eval_div(s, e, o)

\* eval.rs 253-283: the / step
EvalDiv(s, e, o) ==
    LET sp == SplitTopLevel(s, "/")
        ops == eval_operands(sp, e)
        m == DivValues(ops.lv, ops.rv)
    IN  IF sp.found
        THEN (IF ~ops.ok THEN EErr(ops.err, o \o ops.out, "div")
              ELSE IF m.matched /\ ~m.ok THEN EErr("Division by zero", o \o ops.out, "div")
              ELSE IF m.matched THEN EOk(m.val, o \o ops.out, "div")
              ELSE eval_atom(s, e, o \o ops.out))
        ELSE eval_atom(s, e, o)

\* eval.rs 285-423: literals, attribute read, call, identifier, unknown
EvalAtom(s, e, o) ==
    LET pi == ParseInt(s)
        pf == ParseFloat(s)
        at == AttrRead(s, e)
    IN  IF StartsWith(s, <<"\"">>) /\ EndsWith(s, <<"\"">>)
        THEN (IF Len(s) = 1 THEN EErr("panic", o, "literal")
              ELSE EOk(VStr(SubSeq(s, 2, Len(s) - 1)), o, "literal"))
        ELSE IF s = <<"T","r","u","e">> \/ s = <<"t","r","u","e">> THEN EOk(VBool(TRUE), o, "literal")
        ELSE IF s = <<"F","a","l","s","e">> \/ s = <<"f","a","l","s","e">> THEN EOk(VBool(FALSE), o, "literal")
        ELSE IF pi.ok THEN EOk(VInt(pi.i), o, "literal")
        ELSE IF pf.ok THEN EOk(pf.f, o, "literal")
        ELSE IF at.found THEN EOk(at.val, o, "attr")
        ELSE IF ContainsChar(s, "(") /\ EndsWith(s, <<")">>) THEN eval_call(s, e, o)
        ELSE IF Has(e.vars, s) THEN EOk(e.vars[s], o, "ident")
        ELSE EErr("Unknown expression", o, "unknown")

\* eval.rs 332-334: the arguments in order, stopping at the first failure
EvalArgs(pieces, e) ==
    IF pieces = <<>> THEN [ok |-> TRUE, vals |-> <<>>, err |-> "", out |-> <<>>]
    ELSE LET a == eval_expr(Head(pieces), e)
             more == eval_args(Tail(pieces), e)
         IN  IF ~a.ok THEN [ok |-> FALSE, vals |-> <<>>, err |-> a.err, out |-> a.out]
             ELSE [ok |-> more.ok, vals |-> <<a.val>> \o more.vals, err |-> more.err,
                   out |-> a.out \o more.out]

\* eval.rs 325-416: a call name(args) or obj.method(args)
EvalCall(s, e, o) ==
    LET fname == Trim(SplitOnce(s, <<"(">>).l)
        args == SubSeq(s, Len(fname) + 2, Len(s) - 1)
        av == IF Trim(args) = <<>>
              THEN [ok |-> TRUE, vals |-> <<>>, err |-> "", out |-> <<>>]
              ELSE eval_args(SplitAll(args, ","), e)
        ms == RSplitOnce(fname, ".")
        r == IF ms.found THEN method_call(e, Trim(ms.l), Trim(ms.r), av.vals)
             ELSE env_call(e, fname, av.vals)
    IN  IF ~av.ok THEN EErr(av.err, o \o av.out, "call")
        ELSE [r EXCEPT !.out = o \o av.out \o @]

\* a body whose first Return statement gives the caller its value
RunBodyReturning(body, child) ==
    LET r == run_stmts(body, child)
        rets == SelectSeq(body, LAMBDA st : st.kind = "Return")
        v == IF rets = <<>> THEN EOk(VNone, <<>>, "call")
             ELSE eval_expr(rets[1].expr, r.env)
    IN  [(IF ~r.ok THEN EErr(r.err, r.out, "call")
          ELSE EOk(IF v.ok THEN v.val ELSE VNone, r.out, "call"))
            EXCEPT !.frame = child]

\* a user function's body run in its frame: the caller gets None, or the failure
RunBody(body, child) ==
    LET r == run_stmts(body, child)
    IN  [(IF r.ok THEN EOk(VNone, r.out, "call") ELSE EErr(r.err, r.out, "call"))
            EXCEPT !.frame = child]

\* eval.rs 338-411: dispatch of obj.method(args) on the kind of obj
MethodCall(e, obj_name, method_name, args) ==
    LET obj == e.vars[obj_name]
        f == obj.methods[method_name]
    IN  IF ~Has(e.vars, obj_name) THEN EErr("Undefined method call", <<>>, "call")
        ELSE IF obj.tag = "Instance"
        THEN (IF ~Has(obj.methods, method_name) THEN EErr("Method not found", <<>>, "call")
              ELSE IF f.kind = "Native"
              THEN EOk(NativeApply(f.id, <<obj>> \o args), <<>>, "call")
              ELSE run_body(f.body, MethodFrame(obj, f.params, args)))
        ELSE IF obj.tag = "Class" /\ Has(obj.methods, method_name)
        THEN (IF f.kind = "Native" THEN EOk(NativeApply(f.id, args), <<>>, "call")
              ELSE run_body(f.body, StaticFrame(f.params, args)))
        ELSE IF obj.tag = "Dict" /\ Has(obj.map, method_name)
                /\ obj.map[method_name].tag = "Str"
        THEN env_call(e, obj.map[method_name].s, args)
        ELSE EErr("Undefined method call", <<>>, "call")

\* variant: construction returns the Instance as it was before __init__ ran
ConstructNoReadBack(cls, args) ==
    LET instance == VInstance(cls.name, EmptyMap, cls.methods)
        init_fn == cls.methods[InitName]
        frame == InitFrame(instance, init_fn.params, args)
        r == run_stmts(init_fn.body, frame)
    IN  IF Has(cls.methods, InitName) /\ init_fn.kind = "User"
        THEN [(IF ~r.ok THEN EErr(r.err, r.out, "call")
               ELSE EOk(instance, r.out, "call")) EXCEPT !.frame = frame]
        ELSE EOk(instance, <<>>, "call")

\* runtime.rs 125-163: construction of an Instance of the Class cls; the result
\* is whatever self is bound to when __init__ has run
Construct(cls, args) ==
    LET instance == VInstance(cls.name, EmptyMap, cls.methods)
        init_fn == cls.methods[InitName]
        frame == InitFrame(instance, init_fn.params, args)
        r == run_stmts(init_fn.body, frame)
    IN  IF Has(cls.methods, InitName) /\ init_fn.kind = "User"
        THEN [(IF ~r.ok THEN EErr(r.err, r.out, "call")
               ELSE IF Has(r.env.vars, SelfName) THEN EOk(r.env.vars[SelfName], r.out, "call")
               ELSE EOk(instance, r.out, "call")) EXCEPT !.frame = frame]
        ELSE EOk(instance, <<>>, "call")

\* variant: a Class-valued variable is looked up before the function table
CallClassFirst(e, name, args) ==
    IF Has(e.vars, name) /\ e.vars[name].tag = "Class"
    THEN construct(e.vars[name], args)
    ELSE IF Has(e.funcs, name)
    THEN (IF e.funcs[name].kind = "Native"
          THEN EOk(NativeApply(e.funcs[name].id, args), <<>>, "call")
          ELSE run_body(e.funcs[name].body, FunctionFrame(e.funcs[name].params, args)))
    ELSE EErr("Undefined function", <<>>, "call")

\* Env::call
Call(e, name, args) ==
    IF Has(e.funcs, name)
    THEN (IF e.funcs[name].kind = "Native"
          THEN EOk(NativeApply(e.funcs[name].id, args), <<>>, "call")
          ELSE run_body(e.funcs[name].body, FunctionFrame(e.funcs[name].params, args)))
    ELSE IF Has(e.vars, name) /\ e.vars[name].tag = "Class"
    THEN construct(e.vars[name], args)
    ELSE EErr("Undefined function", <<>>, "call")

\* variant: the file of a module runs in the importing Environment
ImportModuleInCaller(e, name) ==
    LET path == ModulePath(name)
        module_map == PseudoModule(e)
        r == run_stmts(ParseToAst(Files[path]), e)
    IN  IF ~Has(Files, path)
        THEN SOk(EnvSet([e EXCEPT !.modules = Put(@, name, module_map)],
                        name, VDict(module_map)), <<>>)
        ELSE IF ~r.ok THEN SErr(e, r.out, r.err)
        ELSE SOk([e EXCEPT !.modules = Put(@, name, r.env.vars)], r.out)

\* Env::import_module
ImportModule(e, name) ==
    LET path == ModulePath(name)
        module_map == PseudoModule(e)
        r == run_stmts(ParseToAst(Files[path]), StdlibEnv)
    IN  IF ~Has(Files, path)
        THEN SOk(EnvSet([e EXCEPT !.modules = Put(@, name, module_map)],
                        name, VDict(module_map)), <<>>)
        ELSE IF ~r.ok THEN SErr(e, r.out, r.err)
        ELSE SOk([e EXCEPT !.modules = Put(@, name, r.env.vars)], r.out)

\* eval.rs 85-97: the branches of an If in order, then the else block
IfBranches(branches, else_block, e, o) ==
    IF branches = <<>>
    THEN (IF else_block # <<>>
          THEN LET r == run_stmts(else_block, e)
               IN  [r EXCEPT !.out = o \o @, !.ret = NoRet]
          ELSE SOk(e, o))
    ELSE LET v == eval_expr(Head(branches).cond, e)
             r == run_stmts(Head(branches).body, e)
         IN  IF ~v.ok THEN SErr(e, o \o v.out, v.err)
             ELSE IF IsTruthy(v.val) THEN [r EXCEPT !.out = o \o v.out \o @, !.ret = NoRet]
             ELSE if_branches(Tail(branches), else_block, e, o \o v.out)

\* eval.rs 102-106
WhileLoop(cond, body, e, o) ==
    LET v == eval_expr(cond, e)
        r == run_stmts(body, e)
    IN  IF ~v.ok THEN SErr(e, o \o v.out, v.err)
        ELSE IF ~IsTruthy(v.val) THEN SOk(e, o \o v.out)
        ELSE IF ~r.ok THEN SErr(r.env, o \o v.out \o r.out, r.err)
        ELSE while_loop(cond, body, r.env, o \o v.out \o r.out)

\* eval.rs 115-118 and 121-124: the body once per item, var bound in e itself
ForLoop(var, items, body, e, o) ==
    IF items = <<>> THEN SOk(e, o)
    ELSE LET r == run_stmts(body, EnvSet(e, var, Head(items)))
         IN  IF ~r.ok THEN SErr(r.env, o \o r.out, r.err)
             ELSE for_loop(var, Tail(items), body, r.env, o \o r.out)

\* eval.rs 64-68
ExecPrint(stmt, e) ==
    LET v == eval_expr(stmt.expr, e)
    IN  IF ~v.ok THEN SErr(e, v.out, v.err)
        ELSE SOk(e, v.out \o <<ToText(v.val)>>)

\* variant: an assignment whose dotted target is not an attribute fails
ExecAssignStrict(stmt, e) ==
    LET v == eval_expr(stmt.rhs, e)
        sp == SplitOnce(stmt.lhs, <<".">>)
        sa == SetAttr(e, sp.l, sp.r, v.val)
    IN  IF ~v.ok THEN SErr(e, v.out, v.err)
        ELSE IF sp.found /\ sa.ok THEN SOk(sa.env, v.out)
        ELSE IF sp.found THEN SErr(e, v.out, "Cannot set attribute")
        ELSE SOk(EnvSet(e, stmt.lhs, v.val), v.out)

\* eval.rs 69-80: a dotted target is tried as obj.attr first
ExecAssign(stmt, e) ==
    LET v == eval_expr(stmt.rhs, e)
        sp == SplitOnce(stmt.lhs, <<".">>)
        sa == SetAttr(e, sp.l, sp.r, v.val)
    IN  IF ~v.ok THEN SErr(e, v.out, v.err)
        ELSE IF sp.found /\ sa.ok THEN SOk(sa.env, v.out)
        ELSE SOk(EnvSet(e, stmt.lhs, v.val), v.out)

\* eval.rs 81-84
ExecExprStmt(stmt, e) ==
    LET v == eval_expr(stmt.expr, e)
    IN  IF ~v.ok THEN SErr(e, v.out, v.err) ELSE SOk(e, v.out)

\* a for statement that takes the end of a Range as its last value
ExecForInclusive(stmt, e) ==
    LET sp == SplitOnce(stmt.header, <<" ","i","n"," ">>)
        it == eval_expr(Trim(sp.r), e)
        items == IF it.val.tag = "List" THEN it.val.vs
                 ELSE [k \in 1..(it.val.end - it.val.start + 1) |-> VInt(it.val.start + k - 1)]
    IN  IF ~sp.found THEN SOk(e, <<>>)
        ELSE IF ~it.ok THEN SErr(e, it.out, it.err)
        ELSE IF it.val.tag \in {"List", "Range"}
        THEN for_loop(Trim(sp.l), items, stmt.body, e, it.out)
        ELSE SErr(e, it.out, "for-loop over non-iterable")

\* eval.rs 108-132
ExecFor(stmt, e) ==
    LET sp == SplitOnce(stmt.header, <<" ","i","n"," ">>)
        it == eval_expr(Trim(sp.r), e)
        items == IF it.val.tag = "List" THEN it.val.vs
                 ELSE [k \in 1..(it.val.end - it.val.start) |-> VInt(it.val.start + k - 1)]
    IN  IF ~sp.found THEN SOk(e, <<>>)
        ELSE IF ~it.ok THEN SErr(e, it.out, it.err)
        ELSE IF it.val.tag \in {"List", "Range"}
        THEN for_loop(Trim(sp.l), items, stmt.body, e, it.out)
        ELSE SErr(e, it.out, "for-loop over non-iterable")

\* eval.rs 133-150
ExecDef(stmt, e) ==
    LET sp == SplitOnce(stmt.sig, <<"(">>)
    IN  IF sp.found
        THEN SOk(EnvSetFunc(e, Trim(sp.l), User(ParamNames(sp.r), stmt.body)), <<>>)
        ELSE SOk(e, <<>>)

\* a class statement that also rewrites the method table of the Instances of
\* that class name already held in variables
ExecClassLive(stmt, e) ==
    LET methods == ClassMethods(stmt.body)
        live == [n \in DOMAIN e.vars |->
                    IF e.vars[n].tag = "Instance" /\ e.vars[n].name = stmt.name
                    THEN [e.vars[n] EXCEPT !.methods = methods]
                    ELSE e.vars[n]]
    IN  SOk(EnvSet([e EXCEPT !.vars = live], stmt.name, VClass(stmt.name, methods)), <<>>)

\* eval.rs 151-171: the Class value is stored in the variable map
ExecClass(stmt, e) ==
    SOk(EnvSet(e, stmt.name, VClass(stmt.name, ClassMethods(stmt.body))), <<>>)

\* eval.rs 172-175
ExecReturn(stmt, e) ==
    LET v == eval_expr(stmt.expr, e)
    IN  IF ~v.ok THEN SErr(e, v.out, v.err)
        ELSE [SOk(e, v.out) EXCEPT !.ret = [some |-> TRUE, val |-> v.val]]

\* variant: an Else statement on its own does nothing
ExecStmtSkipElse(stmt, e) ==
    CASE stmt.kind = "Print" -> ExecPrint(stmt, e)
      [] stmt.kind = "Assign" -> ExecAssign(stmt, e)
      [] stmt.kind = "Expr" -> ExecExprStmt(stmt, e)
      [] stmt.kind = "If" -> if_branches(stmt.branches, stmt.else_block, e, <<>>)
      [] stmt.kind = "While" -> while_loop(stmt.cond, stmt.body, e, <<>>)
      [] stmt.kind = "For" -> ExecFor(stmt, e)
      [] stmt.kind = "Def" -> ExecDef(stmt, e)
      [] stmt.kind = "Class" -> ExecClass(stmt, e)
      [] stmt.kind = "Return" -> ExecReturn(stmt, e)
      [] stmt.kind = "Import" -> import_module(e, stmt.name)
      [] OTHER -> SOk(e, <<>>)

\* variant: the body of a generic Block is run like the body of an Else
ExecStmtRunsBlock(stmt, e) ==
    CASE stmt.kind = "Print" -> ExecPrint(stmt, e)
      [] stmt.kind = "Assign" -> ExecAssign(stmt, e)
      [] stmt.kind = "Expr" -> ExecExprStmt(stmt, e)
      [] stmt.kind = "If" -> if_branches(stmt.branches, stmt.else_block, e, <<>>)
      [] stmt.kind \in {"Else", "Block"} ->
            LET r == run_stmts(stmt.body, e) IN [r EXCEPT !.ret = NoRet]
      [] stmt.kind = "While" -> while_loop(stmt.cond, stmt.body, e, <<>>)
      [] stmt.kind = "For" -> ExecFor(stmt, e)
      [] stmt.kind = "Def" -> ExecDef(stmt, e)
      [] stmt.kind = "Class" -> ExecClass(stmt, e)
      [] stmt.kind = "Return" -> ExecReturn(stmt, e)
      [] stmt.kind = "Import" -> import_module(e, stmt.name)
      [] OTHER -> SOk(e, <<>>)

\* exec_stmt
ExecStmt(stmt, e) ==
    CASE stmt.kind = "Print" -> ExecPrint(stmt, e)
      [] stmt.kind = "Assign" -> ExecAssign(stmt, e)
      [] stmt.kind = "Expr" -> ExecExprStmt(stmt, e)
      [] stmt.kind = "If" -> if_branches(stmt.branches, stmt.else_block, e, <<>>)
      [] stmt.kind = "Else" ->
            LET r == run_stmts(stmt.body, e) IN [r EXCEPT !.ret = NoRet]
      [] stmt.kind = "While" -> while_loop(stmt.cond, stmt.body, e, <<>>)
      [] stmt.kind = "For" -> ExecFor(stmt, e)
      [] stmt.kind = "Def" -> ExecDef(stmt, e)
      [] stmt.kind = "Class" -> ExecClass(stmt, e)
      [] stmt.kind = "Return" -> ExecReturn(stmt, e)
      [] stmt.kind = "Import" -> import_module(e, stmt.name)
      [] OTHER -> SOk(e, <<>>)

\* variant: a failing statement is skipped and the list goes on
RunStmtsKeepGoing(stmts, e) ==
    IF stmts = <<>> THEN SOk(e, <<>>)
    ELSE LET r == exec_stmt(Head(stmts), e)
             more == run_stmts(Tail(stmts), r.env)
         IN  [more EXCEPT !.out = r.out \o @, !.ret = NoRet]

\* run_stmts: every statement in order, stopping only at a failure; what
\* exec_stmt returns for a Return is dropped
RunStmts(stmts, e) ==
    IF stmts = <<>> THEN SOk(e, <<>>)
    ELSE LET r == exec_stmt(Head(stmts), e)
             more == run_stmts(Tail(stmts), r.env)
         IN  IF ~r.ok THEN [r EXCEPT !.ret = NoRet]
             ELSE [more EXCEPT !.out = r.out \o @, !.ret = NoRet]

Interp(t) ==
    CASE t.f = "EvalExpr" -> EvalExpr(t.a[1], t.a[2])
      [] t.f = "EvalOperands" -> EvalOperands(t.a[1], t.a[2])
      [] t.f = "EvalSub" -> EvalSub(t.a[1], t.a[2], t.a[3])
      [] t.f = "EvalMul" -> EvalMul(t.a[1], t.a[2], t.a[3])
      [] t.f = "EvalDiv" -> EvalDiv(t.a[1], t.a[2], t.a[3])
      [] t.f = "EvalAtom" -> EvalAtom(t.a[1], t.a[2], t.a[3])
      [] t.f = "EvalArgs" -> EvalArgs(t.a[1], t.a[2])
      [] t.f = "EvalCall" -> EvalCall(t.a[1], t.a[2], t.a[3])
      [] t.f = "MethodCall" -> MethodCall(t.a[1], t.a[2], t.a[3], t.a[4])
      [] t.f = "RunBody" -> RunBody(t.a[1], t.a[2])
      [] t.f = "Call" -> Call(t.a[1], t.a[2], t.a[3])
      [] t.f = "Construct" -> Construct(t.a[1], t.a[2])
      [] t.f = "ExecStmt" -> ExecStmt(t.a[1], t.a[2])
      [] t.f = "RunStmts" -> RunStmts(t.a[1], t.a[2])
      [] t.f = "IfBranches" -> IfBranches(t.a[1], t.a[2], t.a[3], t.a[4])
      [] t.f = "WhileLoop" -> WhileLoop(t.a[1], t.a[2], t.a[3], t.a[4])
      [] t.f = "ForLoop" -> ForLoop(t.a[1], t.a[2], t.a[3], t.a[4], t.a[5])
      [] t.f = "ImportModule" -> ImportModule(t.a[1], t.a[2])

\* parse_and_run
ParseAndRun(src, e) == run_stmts(ParseToAst(src), e)

(***************************************************************************)
(* Running a script: the loop of run_stmts over the top-level statements   *)
(* of a parsed source (interpreter::run_file, parse_and_run).              *)
(***************************************************************************)
NoResult == [none |-> TRUE]

InitScript(sources) ==
    \E src \in sources :
        /\ mode = "script"
        /\ input = src
        /\ prog = ParseToAst(src)
        /\ pc = 1
        /\ env = StdlibEnv
        /\ out = <<>>
        /\ status = "running"
        /\ res = NoResult

\* eval.rs 36-38: the next statement is executed and returns Ok
Step ==
    /\ mode = "script" /\ status = "running" /\ pc <= Len(prog)
    /\ LET r == exec_stmt(prog[pc], env)
       IN  /\ r.ok
           /\ env' = r.env
           /\ out' = out \o r.out
           /\ res' = r.ret
    /\ pc' = pc + 1
    /\ UNCHANGED <<mode, prog, status, input>>

\* eval.rs 37: the next statement returns Err, which `?` returns to the caller
Fail ==
    /\ mode = "script" /\ status = "running" /\ pc <= Len(prog)
    /\ LET r == exec_stmt(prog[pc], env)
       IN  /\ ~r.ok
           /\ env' = r.env
           /\ out' = out \o r.out
           /\ res' = [err |-> r.err]
    /\ status' = "failed"
    /\ UNCHANGED <<mode, prog, pc, input>>

\* eval.rs 39: the list is exhausted and run_stmts returns Ok(())
Finish ==
    /\ mode = "script" /\ status = "running" /\ pc > Len(prog)
    /\ status' = "ok"
    /\ UNCHANGED <<mode, env, prog, pc, out, input, res>>

(***************************************************************************)
(* SpecEval: eval_expr applied to `x op y` for operand values x and y set  *)
(* by the host (Env::set), and the end-to-end example scripts.  The host   *)
(* may also have bound a variable whose name is the text "x - y" (as the   *)
(* statement `x - y = 7` does), which the identifier rule finds.           *)
(***************************************************************************)
MaxOperand == 3

OperandInts == {VInt(i) : i \in -MaxOperand..MaxOperand}

\* the floats n/2: -1.5, -1.0, -0.5, 0.0, 0.5, ...
OperandFloats == {MkFloat(n, 2) : n \in -MaxOperand..MaxOperand}

OperandOthers ==
    {VStr(<<"a","b">>), VStr(<<>>), VBool(TRUE), VNone, VList(<<VInt(1), VStr(<<"a">>)>>),
     VRange(0, 2), VDict(EmptyMap), VClass(<<"C">>, EmptyMap),
     VInstance(<<"C">>, EmptyMap, EmptyMap)}

OperandValues == OperandInts \cup OperandFloats \cup OperandOthers

XName == <<"x">>

YName == <<"y">>

ExprText(op) == <<"x"," ">> \o <<op>> \o <<" ","y">>

ExampleSum == <<"x"," ","="," ","5","\n","y"," ","="," ","1","0","\n","p","r","i","n","t","(","x"," ","+"," ","y",")">>

ExampleDiff == <<"x"," ","="," ","5","\n","x"," ","="," ","x"," ","-"," ","2","\n","p","r","i","n","t","(","x",")">>

ExampleLoop == <<"f","o","r"," ","i"," ","i","n"," ","r","a","n","g","e","(","0",","," ","3",")",":","\n"," "," "," "," ","p","r","i","n","t","(","i",")">>

ExampleDivZero == <<"x"," ","="," ","0","\n","p","r","i","n","t","(","5"," ","/"," ","x",")">>

ExampleScripts == {ExampleSum, ExampleDiff, ExampleLoop, ExampleDivZero}

InitEval ==
    \/ \E a \in OperandValues, b \in OperandValues, named \in BOOLEAN :
        /\ mode = "eval"
        /\ env = LET e == EnvSet(EnvSet(StdlibEnv, XName, a), YName, b)
                 IN  IF named THEN EnvSet(e, ExprText("-"), VInt(7)) ELSE e
        /\ input = [kind |-> "none"]
        /\ res = NoResult
        /\ prog = <<>> /\ pc = 1 /\ out = <<>> /\ status = "idle"
    \/ InitScript(ExampleScripts)

EvalBinary(op) ==
    /\ mode = "eval"
    /\ input' = [kind |-> "expr", op |-> op, text |-> ExprText(op)]
    /\ res' = eval_expr(ExprText(op), env)
    /\ out' = res'.out
    /\ UNCHANGED <<mode, env, prog, pc, status>>

EvalAdd == EvalBinary("+")

EvalSub2 == EvalBinary("-")

EvalMul2 == EvalBinary("*")

EvalDiv2 == EvalBinary("/")

NextEval == EvalAdd \/ EvalSub2 \/ EvalMul2 \/ EvalDiv2 \/ Step \/ Fail \/ Finish

SpecEval == InitEval /\ [][NextEval]_vars

(***************************************************************************)
(* SpecChain: eval_expr applied to `x op y op z` for Int operands set by   *)
(* the host.                                                               *)
(***************************************************************************)
ZName == <<"z">>

ChainText(op) == <<"x"," ">> \o <<op>> \o <<" ","y"," ">> \o <<op>> \o <<" ","z">>

InitChain ==
    \E a \in OperandInts, b \in OperandInts, c \in OperandInts :
        /\ mode = "chain"
        /\ env = EnvSet(EnvSet(EnvSet(StdlibEnv, XName, a), YName, b), ZName, c)
        /\ input = [kind |-> "none"]
        /\ res = NoResult
        /\ prog = <<>> /\ pc = 1 /\ out = <<>> /\ status = "idle"

EvalChain(op) ==
    /\ mode = "chain"
    /\ input' = [kind |-> "expr", op |-> op, text |-> ChainText(op)]
    /\ res' = eval_expr(ChainText(op), env)
    /\ out' = res'.out
    /\ UNCHANGED <<mode, env, prog, pc, status>>

EvalSubChain == EvalChain("-")

EvalDivChain == EvalChain("/")

NextChain == EvalSubChain \/ EvalDivChain

SpecChain == InitChain /\ [][NextChain]_vars

Spec == SpecEval

(***************************************************************************)
(* SpecRun: run_stmts over the top-level statements of scripts made of up  *)
(* to MaxSnippets of the pieces below, one after the other.                *)
(***************************************************************************)
MaxSnippets == 3

ClassV1 == <<"c","l","a","s","s"," ","C",":","\n"," "," "," "," ","d","e","f"," ","m","(","s","e","l","f",")",":","\n"," "," "," "," "," "," "," "," ","p","r","i","n","t","(","1",")">>

MakeInstance == <<"o"," ","="," ","C","(",")">>

ClassV2 == <<"c","l","a","s","s"," ","C",":","\n"," "," "," "," ","d","e","f"," ","m","(","s","e","l","f",")",":","\n"," "," "," "," "," "," "," "," ","p","r","i","n","t","(","2",")","\n"," "," "," "," ","d","e","f"," ","n","(","s","e","l","f",")",":","\n"," "," "," "," "," "," "," "," ","p","r","i","n","t","(","3",")">>

RebindClass == <<"C"," ","="," ","5">>

CallM == <<"o",".","m","(",")">>

ReturnOne == <<"r","e","t","u","r","n"," ","1">>

PrintTwo == <<"p","r","i","n","t","(","2",")">>

DefAndCall == <<"d","e","f"," ","f","(",")",":","\n"," "," "," "," ","r","e","t","u","r","n"," ","1","\n"," "," "," "," ","p","r","i","n","t","(","9",")","\n","f","(",")">>

Snippets == {ClassV1, MakeInstance, ClassV2, RebindClass, CallM, ReturnOne, PrintTwo, DefAndCall}

RECURSIVE SnippetLists(_)
SnippetLists(n) ==
    IF n = 0 THEN {<<>>}
    ELSE SnippetLists(n - 1)
         \cup {Append(l, sn) : l \in {x \in SnippetLists(n - 1) : Len(x) = n - 1}, sn \in Snippets}

RunScripts == {Join(l, <<"\n">>) : l \in SnippetLists(MaxSnippets) \ {<<>>}}

InitRun == InitScript(RunScripts)

NextRun == Step \/ Fail \/ Finish

SpecRun == InitRun /\ [][NextRun]_vars

(***************************************************************************)
(* SpecCall: a prelude script has run on the registered natives; the host  *)
(* then evaluates a call expression in that Environment: a user function  *)
(* by name, a method on an Instance, or a class by name, with up to        *)
(* MaxArgs literal arguments.  A call leaves the host's Environment as it  *)
(* was (the body runs in a frame of its own), so every call starts from    *)
(* the Environment of the prelude, and a behaviour makes one call.         *)
(***************************************************************************)
MaxArgs == 2

Functions == <<"d","e","f"," ","f","(","a",","," ","b",")",":","\n"," "," "," "," ","r","e","t","u","r","n"," ","a","\n","d","e","f"," ","g","(","a",")",":","\n"," "," "," "," ","p","r","i","n","t","(","a",")","\n"," "," "," "," ","r","e","t","u","r","n"," ","5","\n"," "," "," "," ","p","r","i","n","t","(","a",")","\n","d","e","f"," ","h","(",")",":","\n"," "," "," "," ","r","e","t","u","r","n"," ","k","\n","d","e","f"," ","r","(","a",")",":","\n"," "," "," "," ","r","e","t","u","r","n"," ","r","(","a",")","\n","d","e","f"," ","n","(","a",")",":","\n"," "," "," "," ","r","e","t","u","r","n"," ","l","e","n","(","a",")","\n","k"," ","="," ","3">>

Classes == <<"c","l","a","s","s"," ","C",":","\n"," "," "," "," ","d","e","f"," ","_","_","i","n","i","t","_","_","(","s","e","l","f",","," ","x",")",":","\n"," "," "," "," "," "," "," "," ","s","e","l","f",".","x"," ","="," ","x","\n"," "," "," "," ","d","e","f"," ","s","h","o","w","(","s","e","l","f",","," ","p",")",":","\n"," "," "," "," "," "," "," "," ","p","r","i","n","t","(","p",")","\n"," "," "," "," "," "," "," "," ","r","e","t","u","r","n"," ","p","\n"," "," "," "," ","d","e","f"," ","t","w","o","(","s","e","l","f",","," ","p",","," ","q",")",":","\n"," "," "," "," "," "," "," "," ","p","r","i","n","t","(","p",")","\n"," "," "," "," "," "," "," "," ","p","r","i","n","t","(","q",")","\n","c","l","a","s","s"," ","D",":","\n"," "," "," "," ","d","e","f"," ","m","(","s","e","l","f",")",":","\n"," "," "," "," "," "," "," "," ","r","e","t","u","r","n"," ","1","\n","c","l","a","s","s"," ","E",":","\n"," "," "," "," ","d","e","f"," ","_","_","i","n","i","t","_","_","(","s","e","l","f",","," ","x",","," ","y",")",":","\n"," "," "," "," "," "," "," "," ","s","e","l","f",".","x"," ","="," ","x","\n"," "," "," "," "," "," "," "," ","s","e","l","f",".","y"," ","="," ","y","\n","o"," ","="," ","C","(","1",")","\n","d"," ","="," ","D","(",")">>

RebindInstance == <<"o"," ","="," ","E","(","8",")">>

Preludes ==
    {Join(<<Functions, Classes>>, <<"\n">>),
     Join(<<Classes, Functions, RebindInstance>>, <<"\n">>)}

ArgPool == {VInt(7), VInt(8), VStr(<<"s">>)}

ArgLists == UNION {[1..n -> ArgPool] : n \in 0..MaxArgs}

\* the literal that evaluates to an argument value
ArgText(v) == IF v.tag = "Int" THEN IntToText(v.i) ELSE <<"\"">> \o v.s \o <<"\"">>

CallText(name, args) ==
    name \o <<"(">> \o Join([k \in 1..Len(args) |-> ArgText(args[k])], <<",", " ">>) \o <<")">>

InitCall ==
    \E src \in Preludes :
        /\ mode = "call"
        /\ env = ParseAndRun(src, StdlibEnv).env
        /\ input = [kind |-> "none"]
        /\ res = NoResult
        /\ prog = <<>> /\ pc = 1 /\ out = <<>> /\ status = "idle"

\* the host evaluates the call expression text with eval_expr (eval_expr_str)
EvalCallText(kind, obj, name, args) ==
    LET callee == IF kind = "method" THEN obj \o <<".">> \o name ELSE name
    IN  /\ mode = "call" /\ input.kind = "none"
        /\ input' = [kind |-> kind, obj |-> obj, name |-> name, args |-> args,
                      text |-> CallText(callee, args)]
        /\ res' = eval_expr(CallText(callee, args), env)
        /\ out' = res'.out
        /\ UNCHANGED <<mode, env, prog, pc, status>>

UserFunctions == {f \in DOMAIN env.funcs : env.funcs[f].kind = "User"}

InstanceVars == {v \in DOMAIN env.vars : env.vars[v].tag = "Instance"}

ClassVars == {v \in DOMAIN env.vars : env.vars[v].tag = "Class"}

\* f(args) for a user function f: Env::call, runtime.rs 105-120
CallFunction ==
    \E f \in UserFunctions, args \in ArgLists : EvalCallText("function", <<>>, f, args)

\* o.m(args) for an Instance o: eval.rs 343-371
CallMethod ==
    \E o \in InstanceVars, args \in ArgLists :
        \E m \in DOMAIN env.vars[o].methods :
            EvalCallText("method", o, m, args)

\* C(args) for a Class C: Env::call, runtime.rs 125-163
ConstructInstance ==
    \E c \in ClassVars, args \in ArgLists : EvalCallText("construct", <<>>, c, args)

NextCall == CallFunction \/ CallMethod \/ ConstructInstance

SpecCall == InitCall /\ [][NextCall]_vars

(***************************************************************************)
(* SpecScript: run_stmts over the top-level statements of the scripts      *)
(* below: a for loop over range(s, e) for bounds up to MaxRange either     *)
(* side of zero, and (further down) scripts that import, fail, call and    *)
(* branch.                                                                 *)
(***************************************************************************)
MaxRange == 2

RangeBounds == (0 - MaxRange)..MaxRange

\* `for v in range(s, e):` printing v in the body, then printing v after the loop
ForScript(s, e) ==
    <<"f","o","r"," ","v"," ","i","n"," ","r","a","n","g","e","(">> \o IntToText(s) \o <<","," ">> \o IntToText(e)
        \o <<")",":","\n"," "," "," "," ","p","r","i","n","t","(","v",")","\n","p","r","i","n","t","(","v",")">>

ForScripts == {ForScript(s, e) : s \in RangeBounds, e \in RangeBounds}

\* the lines printed for the values s, s+1, ..., e-1
RECURSIVE CountUp(_, _)
CountUp(s, e) == IF e <= s THEN <<>> ELSE <<IntToText(s)>> \o CountUp(s + 1, e)

\* import of a module without a file, after bindings and definitions, some of
\* which give a variable the name of a function; and import of the file m.fm
ImportScripts ==
    {<<"i","m","p","o","r","t"," ","n","o","m","o","d">>,
     <<"x"," ","="," ","5","\n","i","m","p","o","r","t"," ","n","o","m","o","d","\n","p","r","i","n","t","(","n","o","m","o","d",".","x",")">>,
     <<"d","e","f"," ","f","(",")",":","\n"," "," "," "," ","r","e","t","u","r","n"," ","1","\n","i","m","p","o","r","t"," ","n","o","m","o","d","\n","p","r","i","n","t","(","n","o","m","o","d",".","f",")">>,
     <<"l","e","n"," ","="," ","3","\n","i","m","p","o","r","t"," ","n","o","m","o","d","\n","p","r","i","n","t","(","n","o","m","o","d",".","l","e","n",")">>,
     <<"d","e","f"," ","g","(",")",":","\n"," "," "," "," ","r","e","t","u","r","n"," ","1","\n","g"," ","="," ","2","\n","i","m","p","o","r","t"," ","n","o","m","o","d","\n","p","r","i","n","t","(","n","o","m","o","d",".","g",")">>,
     <<"i","m","p","o","r","t"," ","n","o","m","o","d","\n","p","r","i","n","t","(","n","o","m","o","d",".","a","b","s","(","0"," ","-"," ","3",")",")">>,
     <<"i","m","p","o","r","t"," ","n","o","m","o","d","\n","i","m","p","o","r","t"," ","o","t","h","e","r","\n","p","r","i","n","t","(","o","t","h","e","r",".","n","o","m","o","d",")">>,
     <<"i","m","p","o","r","t"," ","m","\n","p","r","i","n","t","(","k",")">>}

\* statements that fail when executed
FailingStatements ==
    {<<"p","r","i","n","t","(","1"," ","/"," ","0",")">>, <<"b"," ","="," ","n","o","p","e">>, <<"n","o","p","e","(","1",")">>, <<"o","2",".","m","(",")">>, <<"r","e","t","u","r","n"," ","n","o","p","e">>}

\* a failing statement F after `a = 1`, at the top level or nested in a loop, a
\* branch, a function or a method; every statement after F in document order
\* prints 9
AbortTop(F) == <<"a"," ","="," ","1","\n">> \o F \o <<"\n","p","r","i","n","t","(","9",")">>

AbortFor(F) ==
    <<"a"," ","="," ","1","\n","f","o","r"," ","i"," ","i","n"," ","r","a","n","g","e","(","0",","," ","2",")",":","\n"," "," "," "," ","p","r","i","n","t","(","0",")","\n"," "," "," "," ">> \o F \o <<"\n"," "," "," "," ","p","r","i","n","t","(","9",")","\n","p","r","i","n","t","(","9",")">>

AbortWhile(F) ==
    <<"a"," ","="," ","1","\n","w","h","i","l","e"," ","a",":","\n"," "," "," "," ">> \o F \o <<"\n"," "," "," "," ","a"," ","="," ","0","\n"," "," "," "," ","p","r","i","n","t","(","9",")","\n","p","r","i","n","t","(","9",")">>

AbortIf(F) ==
    <<"a"," ","="," ","1","\n","i","f"," ","a",":","\n"," "," "," "," ">> \o F \o <<"\n"," "," "," "," ","p","r","i","n","t","(","9",")","\n","e","l","s","e",":","\n"," "," "," "," ","p","r","i","n","t","(","9",")","\n","p","r","i","n","t","(","9",")">>

AbortNested(F) ==
    <<"a"," ","="," ","1","\n","f","o","r"," ","i"," ","i","n"," ","r","a","n","g","e","(","0",","," ","2",")",":","\n"," "," "," "," ","i","f"," ","a",":","\n"," "," "," "," "," "," "," "," ">> \o F
        \o <<"\n"," "," "," "," "," "," "," "," ","p","r","i","n","t","(","9",")","\n"," "," "," "," ","p","r","i","n","t","(","9",")","\n","p","r","i","n","t","(","9",")">>

AbortDef(F) ==
    <<"a"," ","="," ","1","\n","d","e","f"," ","f","(",")",":","\n"," "," "," "," ","p","r","i","n","t","(","0",")","\n"," "," "," "," ">> \o F \o <<"\n"," "," "," "," ","p","r","i","n","t","(","9",")","\n","f","(",")","\n","p","r","i","n","t","(","9",")">>

AbortMethod(F) ==
    <<"c","l","a","s","s"," ","C",":","\n"," "," "," "," ","d","e","f"," ","m","(","s","e","l","f",")",":","\n"," "," "," "," "," "," "," "," ">> \o F
        \o <<"\n"," "," "," "," "," "," "," "," ","p","r","i","n","t","(","9",")","\n","o"," ","="," ","C","(",")","\n","a"," ","="," ","1","\n","o",".","m","(",")","\n","p","r","i","n","t","(","9",")">>

\* a failing condition, and a failure next to try/except blocks
AbortOthers ==
    {<<"a"," ","="," ","1","\n","i","f"," ","n","o","p","e",":","\n"," "," "," "," ","p","r","i","n","t","(","9",")","\n","p","r","i","n","t","(","9",")">>,
     <<"a"," ","="," ","1","\n","w","h","i","l","e"," ","1"," ","/"," ","0",":","\n"," "," "," "," ","p","r","i","n","t","(","9",")","\n","p","r","i","n","t","(","9",")">>,
     <<"a"," ","="," ","1","\n","f","o","r"," ","z"," ","i","n"," ","5",":","\n"," "," "," "," ","p","r","i","n","t","(","9",")","\n","p","r","i","n","t","(","9",")">>,
     <<"a"," ","="," ","1","\n","t","r","y",":","\n"," "," "," "," ","p","r","i","n","t","(","0",")","\n","e","x","c","e","p","t",":","\n"," "," "," "," ","p","r","i","n","t","(","0",")","\n","p","r","i","n","t","(","1"," ","/"," ","0",")","\n","e","x","c","e","p","t",":","\n"," "," "," "," ","p","r","i","n","t","(","9",")","\n","p","r","i","n","t","(","9",")">>}

AbortScripts ==
    UNION {{AbortTop(F), AbortFor(F), AbortWhile(F), AbortIf(F), AbortNested(F),
            AbortDef(F), AbortMethod(F)} : F \in FailingStatements}
    \cup AbortOthers

\* the example of the crate documentation (lib.rs 35-41)
PersonScript ==
    <<"c","l","a","s","s"," ","P","e","r","s","o","n",":","\n"," "," "," "," ","d","e","f"," ","_","_","i","n","i","t","_","_","(","s","e","l","f",","," ","n","a","m","e",")",":","\n"," "," "," "," "," "," "," "," ","s","e","l","f",".","n","a","m","e"," ","="," ","n","a","m","e","\n"," "," "," "," ","d","e","f"," ","g","r","e","e","t","(","s","e","l","f",")",":","\n"," "," "," "," "," "," "," "," ","p","r","i","n","t","(","\"","H","e","l","l","o",","," ","\""," ","+"," ","s","e","l","f",".","n","a","m","e",")","\n","p"," ","="," ","P","e","r","s","o","n","(","\"","A","l","i","c","e","\"",")","\n","p",".","g","r","e","e","t","(",")">>

\* calls whose argument text has a comma inside a string literal or inside a
\* nested call
CallWithStringComma == <<"p","r","i","n","t","(","l","e","n","(","\"","a",",","b","\"",")",")">>

CallWithNestedCall == <<"p","r","i","n","t","(","l","e","n","(","s","t","r","(","1","2",","," ","3",")",")",")">>

\* an if/elif chain whose two conditions are truthy
ElifScript == <<"x"," ","="," ","1","\n","i","f"," ","x",":","\n"," "," "," "," ","p","r","i","n","t","(","1",")","\n","e","l","i","f"," ","x",":","\n"," "," "," "," ","p","r","i","n","t","(","2",")">>

Scripts ==
    ForScripts \cup ImportScripts \cup AbortScripts
        \cup {ExampleLoop, PersonScript, CallWithStringComma, CallWithNestedCall, ElifScript}

InitScripts == InitScript(Scripts)

NextScript == Step \/ Fail \/ Finish

SpecScript == InitScripts /\ [][NextScript]_vars

(***************************************************************************)
(* SpecParse: parse_to_ast and check_script on sources of up to MaxLines   *)
(* lines, each a header, an assignment or a comment behind up to MaxIndent *)
(* spaces, or a blank line; and on the two sources of the tests of         *)
(* check.rs.                                                               *)
(***************************************************************************)
MaxLines == 3

MaxIndent == 2

LineTexts == {<<"i","f"," ","x",":">>, <<"a"," ","="," ","1">>, <<"#"," ","c">>}

RECURSIVE Spaces(_)
Spaces(n) == IF n = 0 THEN <<>> ELSE <<" ">> \o Spaces(n - 1)

LinePool == {Spaces(i) \o t : i \in 0..MaxIndent, t \in LineTexts} \cup {<<>>}

LineLists == UNION {[1..n -> LinePool] : n \in 1..MaxLines}

ParseSources == {Join(ls, <<"\n">>) : ls \in LineLists}

CheckValid == <<"x"," ","="," ","5","\n","p","r","i","n","t","(","x",")">>

CheckMissingRhs == <<"x"," ","="," ">>

InitParse ==
    \E src \in ParseSources \cup {CheckValid, CheckMissingRhs} :
        /\ mode = "parse"
        /\ input = src
        /\ res = NoResult
        /\ prog = <<>> /\ pc = 1 /\ env = NewEnv /\ out = <<>> /\ status = "idle"

\* parser.rs 30-45: parse_to_ast on the source
Parse ==
    /\ mode = "parse" /\ status = "idle"
    /\ res' = ParseResult(input)
    /\ prog' = res'.body
    /\ status' = "parsed"
    /\ UNCHANGED <<mode, env, pc, out, input>>

\* check.rs 53-84: check_script on the source
Check ==
    /\ mode = "parse" /\ status = "idle"
    /\ res' = CheckScript(input)
    /\ status' = "checked"
    /\ UNCHANGED <<mode, env, prog, pc, out, input>>

NextParse == Parse \/ Check

SpecParse == InitParse /\ [][NextParse]_vars

(***************************************************************************)
(* SpecRepl: the loop of repl::start over up to MaxInputs input lines.     *)
(* out holds the lines written after the banner, without the prompts; a    *)
(* panic of the evaluator unwinds out of start and ends the process.       *)
(***************************************************************************)
MaxInputs == 3

ReplLines ==
    {<<"x"," ","="," ","1">>, <<" ","p","r","i","n","t","(","x",")"," ">>, <<"p","r","i","n","t","(","n","o","p","e",")">>, <<"1"," ","/"," ","0">>, <<">",">",">"," ","x">>, <<">",">",">"," ","n","o","p","e">>,
     <<">",">",">"," ","x"," ","="," ","2">>, <<"\"">>, <<">",">",">"," ","\"">>, <<>>, <<"e","x","i","t">>, <<" ","q","u","i","t">>}

InitRepl ==
    /\ mode = "repl"
    /\ env = StdlibEnv
    /\ input = <<>>
    /\ res = NoResult
    /\ prog = <<>> /\ pc = 1 /\ out = <<>> /\ status = "reading"

\* repl.rs 28-32: a line is read and trimmed
ReadLine(line) ==
    /\ mode = "repl" /\ status = "reading" /\ pc <= MaxInputs
    /\ input' = line
    /\ pc' = pc + 1
    /\ UNCHANGED mode

\* repl.rs 39-43
IsExprMode(l) == StartsWith(l, <<">",">",">">>)

ReplCode(l) == IF IsExprMode(l) THEN Trim(SubSeq(l, 4, Len(l))) ELSE l

Panicked(r) == ~r.ok /\ r.err = "panic"

\* repl.rs 33-35: exit or quit leaves the loop and start returns Ok
Quit ==
    \E line \in ReplLines :
        /\ ReadLine(line)
        /\ Trim(line) \in {<<"e","x","i","t">>, <<"q","u","i","t">>}
        /\ status' = "ended"
        /\ res' = [ok |-> TRUE]
        /\ UNCHANGED <<env, prog, out>>

\* repl.rs 36: an empty line is skipped
EmptyLine ==
    \E line \in ReplLines :
        /\ ReadLine(line)
        /\ Trim(line) = <<>>
        /\ res' = [ok |-> TRUE]
        /\ UNCHANGED <<env, prog, out, status>>

\* repl.rs 31, 36: at the end of the input read_line returns Ok(0) and leaves
\* the line empty, which is skipped like an empty line; every later read finds
\* the end of the input again
EndOfInput ==
    /\ mode = "repl" /\ status \in {"reading", "exhausted"}
    /\ input' = <<>>
    /\ status' = "exhausted"
    /\ res' = [ok |-> TRUE]
    /\ UNCHANGED <<mode, env, prog, pc, out>>

\* a line that is neither: repl.rs 39-46
IsCode(line) ==
    /\ Trim(line) \notin {<<"e","x","i","t">>, <<"q","u","i","t">>, <<>>}
    /\ ParseResult(ReplCode(Trim(line))).ok

\* the statements of the line, and what eval_expr_str and run_stmts make of it
LineBody(line) == ParseResult(ReplCode(Trim(line))).body

LineValue(line, e) == eval_expr(ReplCode(Trim(line)), e)

LineRun(line, e) == run_stmts(LineBody(line), e)

\* repl.rs 51-54: the value v of the line is printed
PrintValue(v) ==
    /\ v.ok
    /\ out' = out \o v.out \o <<ToText(v.val)>>
    /\ res' = [ok |-> TRUE]
    /\ UNCHANGED <<env, status>>

\* repl.rs 57, 62: the statements have run with result r, which is dropped
DropResult(before, r) ==
    /\ ~Panicked(r)
    /\ env' = r.env
    /\ out' = out \o before \o r.out
    /\ res' = IF r.ok THEN [ok |-> TRUE] ELSE [ok |-> FALSE, err |-> r.err]
    /\ UNCHANGED status

\* the process ends in a panic of eval_expr_str (v) or of run_stmts (r)
Unwind(expr_mode, v, r) ==
    /\ IF expr_mode THEN Panicked(v) \/ (~v.ok /\ Panicked(r)) ELSE Panicked(r)
    /\ out' = out \o (IF expr_mode THEN v.out ELSE <<>>)
                  \o (IF expr_mode /\ Panicked(v) THEN <<>> ELSE r.out)
    /\ env' = IF expr_mode /\ Panicked(v) THEN env ELSE r.env
    /\ res' = [ok |-> FALSE, err |-> "panic"]
    /\ status' = "crashed"

\* repl.rs 51-54: expression mode, the value is printed
EvalLine ==
    \E line \in ReplLines :
        /\ ReadLine(line) /\ IsCode(line) /\ IsExprMode(Trim(line))
        /\ PrintValue(LineValue(line, env))
        /\ prog' = LineBody(line)

\* repl.rs 55-58: expression mode, eval_expr_str fails and the parsed line is
\* run as statements, whose result is dropped
FallbackLine ==
    \E line \in ReplLines :
        /\ ReadLine(line) /\ IsCode(line) /\ IsExprMode(Trim(line))
        /\ ~LineValue(line, env).ok /\ ~Panicked(LineValue(line, env))
        /\ DropResult(LineValue(line, env).out, LineRun(line, env))
        /\ prog' = LineBody(line)

\* repl.rs 60-63: the parsed line is run as statements, whose result is dropped
StatementLine ==
    \E line \in ReplLines :
        /\ ReadLine(line) /\ IsCode(line) /\ ~IsExprMode(Trim(line))
        /\ DropResult(<<>>, LineRun(line, env))
        /\ prog' = LineBody(line)

\* repl.rs 51 and 57, 62: eval_expr_str or run_stmts panics (eval.rs 285-287
\* on a text that is a single double quote); nothing in start catches it
Crash ==
    \E line \in ReplLines :
        /\ ReadLine(line) /\ IsCode(line)
        /\ Unwind(IsExprMode(Trim(line)), LineValue(line, env), LineRun(line, env))
        /\ prog' = LineBody(line)

NextRepl == Quit \/ EmptyLine \/ EndOfInput \/ EvalLine \/ FallbackLine \/ StatementLine \/ Crash

SpecRepl == InitRepl /\ [][NextRepl]_vars

(***************************************************************************)
(* SpecResolve: Env::call on a bare name.  The Environment is that of a    *)
(* prelude in which the name f is or is not a user function, and is        *)
(* unbound or bound to a Class, an Int or an Instance, and in which the    *)
(* native len is or is not also the name of a Class; the host evaluates    *)
(* f(args), len(args) or nope(args).                                       *)
(***************************************************************************)
DefF == <<"d","e","f"," ","f","(","a",")",":","\n"," "," "," "," ","p","r","i","n","t","(","1",")">>

ClassF == <<"c","l","a","s","s"," ","f",":","\n"," "," "," "," ","d","e","f"," ","_","_","i","n","i","t","_","_","(","s","e","l","f",","," ","a",")",":","\n"," "," "," "," "," "," "," "," ","p","r","i","n","t","(","2",")">>

IntF == <<"f"," ","="," ","5">>

InstanceF == <<"c","l","a","s","s"," ","K",":","\n"," "," "," "," ","d","e","f"," ","m","(","s","e","l","f",")",":","\n"," "," "," "," "," "," "," "," ","p","r","i","n","t","(","3",")","\n","f"," ","="," ","K","(",")">>

ClassLen == <<"c","l","a","s","s"," ","l","e","n",":","\n"," "," "," "," ","d","e","f"," ","_","_","i","n","i","t","_","_","(","s","e","l","f",","," ","a",")",":","\n"," "," "," "," "," "," "," "," ","p","r","i","n","t","(","2",")">>

ResolvePreludes ==
    {Join(<<d, v, l>>, <<"\n">>) :
        d \in {<<>>, DefF}, v \in {<<>>, ClassF, IntF, InstanceF}, l \in {<<>>, ClassLen}}

CalledNames == {<<"f">>, <<"l","e","n">>, <<"n","o","p","e">>}

InitResolve ==
    \E src \in ResolvePreludes :
        /\ mode = "resolve"
        /\ env = ParseAndRun(src, StdlibEnv).env
        /\ input = [kind |-> "none"]
        /\ res = NoResult
        /\ prog = <<>> /\ pc = 1 /\ out = <<>> /\ status = "idle"

\* eval.rs 325-335, 416: the call expression name(args) is evaluated
CallName(name, args) ==
    /\ mode = "resolve" /\ input.kind = "none"
    /\ input' = [kind |-> "call", name |-> name, args |-> args, text |-> CallText(name, args)]
    /\ res' = eval_expr(CallText(name, args), env)
    /\ out' = res'.out
    /\ UNCHANGED <<mode, env, prog, pc, status>>

\* runtime.rs 102-120: the name is in the function table
CallTableEntry ==
    \E name \in CalledNames, args \in ArgLists :
        Has(env.funcs, name) /\ CallName(name, args)

\* runtime.rs 121-163: the name is not in the function table and is a variable
\* that holds a Class
CallClass ==
    \E name \in CalledNames, args \in ArgLists :
        /\ ~Has(env.funcs, name)
        /\ Has(env.vars, name) /\ env.vars[name].tag = "Class"
        /\ CallName(name, args)

\* runtime.rs 164-168: neither
CallUndefined ==
    \E name \in CalledNames, args \in ArgLists :
        /\ ~Has(env.funcs, name)
        /\ ~(Has(env.vars, name) /\ env.vars[name].tag = "Class")
        /\ CallName(name, args)

NextResolve == CallTableEntry \/ CallClass \/ CallUndefined

SpecResolve == InitResolve /\ [][NextResolve]_vars

(***************************************************************************)
(* SpecFrame: run_stmts over scripts that show what a statement does to    *)
(* the Environment it runs in.                                             *)
(***************************************************************************)
\* what o is bound to before the dotted assignments
DottedPreludes ==
    {<<"c","l","a","s","s"," ","C",":","\n"," "," "," "," ","d","e","f"," ","m","(","s","e","l","f",")",":","\n"," "," "," "," "," "," "," "," ","p","r","i","n","t","(","1",")","\n","o"," ","="," ","C","(",")">>,
     <<"i","m","p","o","r","t"," ","n","o","m","o","d","\n","o"," ","="," ","n","o","m","o","d">>,
     <<"o"," ","="," ","5">>,
     <<"o"," ","="," ","s","t","r","(","5",")">>,
     <<"o"," ","="," ","r","a","n","g","e","(","0",","," ","2",")">>,
     <<"c","l","a","s","s"," ","o",":","\n"," "," "," "," ","d","e","f"," ","m","(","s","e","l","f",")",":","\n"," "," "," "," "," "," "," "," ","p","r","i","n","t","(","1",")">>,
     <<"k"," ","="," ","2">>}

DottedTargets == {<<"o",".","x">>, <<"o",".","x",".","y">>, <<"o",".">>, <<"k",".","o">>}

Dotted(prelude, target) ==
    Join(<<prelude, <<"z"," ","="," ","1">>, target \o <<" ","="," ","7">>, target \o <<" ","="," ","z">>, target \o <<" ","="," ","n","o","p","e">>>>,
         <<"\n">>)

DottedScripts == {Dotted(p, t) : p \in DottedPreludes, t \in DottedTargets}

\* what the importer holds before the import
ImporterPreludes ==
    {<<"x"," ","="," ","5">>, <<"k"," ","="," ","1">>, <<"d","e","f"," ","f","(",")",":","\n"," "," "," "," ","p","r","i","n","t","(","1",")">>, <<"d","e","f"," ","g","(",")",":","\n"," "," "," "," ","p","r","i","n","t","(","2",")","\n","x"," ","="," ","3">>}

FileModules == {<<"m">>, <<"u","s","e","s","x">>, <<"u","s","e","s","f">>, <<"n","a","t","i","v","e","s">>, <<"d","e","f","s">>}

ImportFile(prelude, name) ==
    Join(<<prelude, <<"i","m","p","o","r","t"," ">> \o name, <<"p","r","i","n","t","(">> \o name \o <<")">>>>, <<"\n">>)

ImportFileScripts == {ImportFile(p, n) : p \in ImporterPreludes, n \in FileModules}

\* if/else pairs at top level, in a loop body and in a function body, an else
\* without an if, and an if/elif/else chain
IfElseTop(c) ==
    <<"x"," ","="," ">> \o c \o <<"\n","i","f"," ","x",":","\n"," "," "," "," ","p","r","i","n","t","(","1",")","\n","e","l","s","e",":","\n"," "," "," "," ","p","r","i","n","t","(","2",")","\n","p","r","i","n","t","(","3",")">>

IfElseFailing == <<"i","f"," ","n","o","p","e",":","\n"," "," "," "," ","p","r","i","n","t","(","1",")","\n","e","l","s","e",":","\n"," "," "," "," ","p","r","i","n","t","(","2",")">>

IfElseInFor == <<"f","o","r"," ","i"," ","i","n"," ","r","a","n","g","e","(","0",","," ","2",")",":","\n"," "," "," "," ","i","f"," ","i",":","\n"," "," "," "," "," "," "," "," ","p","r","i","n","t","(","1",")","\n"," "," "," "," ","e","l","s","e",":","\n"," "," "," "," "," "," "," "," ","p","r","i","n","t","(","2",")">>

IfElseInDef ==
    <<"d","e","f"," ","f","(","x",")",":","\n"," "," "," "," ","i","f"," ","x",":","\n"," "," "," "," "," "," "," "," ","p","r","i","n","t","(","1",")","\n"," "," "," "," ","e","l","s","e",":","\n"," "," "," "," "," "," "," "," ","p","r","i","n","t","(","2",")","\n","f","(","1",")","\n","f","(","0",")">>

ElseAlone == <<"e","l","s","e",":","\n"," "," "," "," ","p","r","i","n","t","(","2",")">>

IfElifElse == <<"x"," ","="," ","1","\n","i","f"," ","x",":","\n"," "," "," "," ","p","r","i","n","t","(","1",")","\n","e","l","i","f"," ","x",":","\n"," "," "," "," ","p","r","i","n","t","(","4",")","\n","e","l","s","e",":","\n"," "," "," "," ","p","r","i","n","t","(","2",")">>

ElseScripts ==
    {IfElseTop(<<"0">>), IfElseTop(<<"1">>), IfElseFailing, IfElseInFor, IfElseInDef,
     ElseAlone, IfElifElse}

\* headers that are none of if, elif, else, while, for, def, class
BlockHeaders == {<<"t","r","y">>, <<"e","x","c","e","p","t">>, <<"f","i","n","a","l","l","y">>, <<"w","i","t","h"," ","x">>, <<"l","o","o","p"," ","3">>}

BlockBody(indent) ==
    Join(<<indent \o <<"a"," ","="," ","1">>, indent \o <<"p","r","i","n","t","(","1",")">>, indent \o <<"d","e","f"," ","f","(",")",":">>,
           indent \o <<" "," "," "," ","p","r","i","n","t","(","2",")">>, indent \o <<"i","m","p","o","r","t"," ","n","o","m","o","d">>, indent \o <<"n","o","p","e","(","1",")">>>>, <<"\n">>)

BlockTop(header) ==
    Join(<<<<"a"," ","="," ","0">>, header \o <<":">>, BlockBody(<<" "," "," "," ">>), <<"p","r","i","n","t","(","a",")">>>>, <<"\n">>)

BlockInIf(header) ==
    Join(<<<<"a"," ","="," ","0">>, <<"i","f"," ","1",":">>, <<" "," "," "," ">> \o header \o <<":">>, BlockBody(<<" "," "," "," "," "," "," "," ">>), <<"p","r","i","n","t","(","a",")">>>>,
         <<"\n">>)

BlockScripts == {BlockTop(h) : h \in BlockHeaders} \cup {BlockInIf(h) : h \in BlockHeaders}

\* a method that writes fields of self, called as a statement and in an
\* assignment
MethodCopyClass ==
    <<"c","l","a","s","s"," ","C",":","\n"," "," "," "," ","d","e","f"," ","_","_","i","n","i","t","_","_","(","s","e","l","f",","," ","x",")",":","\n"," "," "," "," "," "," "," "," ","s","e","l","f",".","x"," ","="," ","x","\n"," "," "," "," ","d","e","f"," ","s","e","t","(","s","e","l","f",")",":","\n"," "," "," "," "," "," "," "," ","s","e","l","f",".","x"," ","="," ","9","\n"," "," "," "," "," "," "," "," ","s","e","l","f",".","y"," ","="," ","9","\n"," "," "," "," "," "," "," "," ","p","r","i","n","t","(","s","e","l","f",".","x",")">>

MethodCopyStatement == Join(<<MethodCopyClass, <<"o"," ","="," ","C","(","1",")","\n","o",".","s","e","t","(",")","\n","p","r","i","n","t","(","o",".","x",")","\n","p","r","i","n","t","(","o",".","y",")">>>>, <<"\n">>)

MethodCopyAssign == Join(<<MethodCopyClass, <<"o"," ","="," ","C","(","1",")","\n","z"," ","="," ","o",".","s","e","t","(",")","\n","p","r","i","n","t","(","o",".","x",")","\n","p","r","i","n","t","(","z",")">>>>, <<"\n">>)

MethodCopyScripts == {MethodCopyStatement, MethodCopyAssign}

FrameScripts ==
    DottedScripts \cup ImportFileScripts \cup ElseScripts \cup BlockScripts \cup MethodCopyScripts

InitFrames == InitScript(FrameScripts)

NextFrame == Step \/ Fail \/ Finish

SpecFrame == InitFrames /\ [][NextFrame]_vars

(***************************************************************************)
(* SpecUi: MaxThreads threads, each making up to MaxCalls calls of         *)
(* ui::insert, interleaved at the atomic steps of insert: the fetch_add on *)
(* NEXT_ID, the lock of REGISTRY, the insertion, and the return (which     *)
(* drops the guard).  Here env holds the two statics and the holder of the *)
(* mutex, and pc, input, prog and res hold, per thread, the position in    *)
(* insert, the object passed, the identifier made, and the (id, object)    *)
(* pairs of the calls that have returned.                                  *)
(***************************************************************************)
MaxThreads == 2

MaxCalls == 2

\* ui.rs 20: the first value of NEXT_ID
FirstId == 1

Threads == 1..MaxThreads

\* the mutex of REGISTRY is held by the threads of env.lock: none or one
Unlocked == {}

\* the object thread t passes in its k-th call: windows and buttons in turn
UiObject(t, k) ==
    IF (t + k) % 2 = 0
    THEN [kind |-> <<"w","i","n","d","o","w">>, title |-> NatToText(t) \o <<".">> \o NatToText(k)]
    ELSE [kind |-> <<"b","u","t","t","o","n">>, label |-> NatToText(t) \o <<".">> \o NatToText(k)]

InitUi ==
    /\ mode = "ui"
    /\ env = [next_id |-> FirstId, registry |-> EmptyMap, lock |-> Unlocked]
    /\ pc = [t \in Threads |-> "idle"]
    /\ input = [t \in Threads |-> [kind |-> <<>>]]
    /\ prog = [t \in Threads |-> <<>>]
    /\ res = [t \in Threads |-> <<>>]
    /\ out = <<>> /\ status = "running"

\* ui.rs 65: an id without a fresh number
CreateIdStale(t) ==
    /\ mode = "ui" /\ pc[t] = "create_id"
    /\ prog' = [prog EXCEPT ![t] = input[t].kind \o <<"-">> \o NatToText(env.next_id)]
    /\ pc' = [pc EXCEPT ![t] = "lock"]
    /\ UNCHANGED <<mode, env, out, status, input, res>>

\* ui.rs 57-64: thread t calls insert(obj); the kind is matched
insert(t) ==
    /\ mode = "ui" /\ pc[t] = "idle" /\ Len(res[t]) < MaxCalls
    /\ input' = [input EXCEPT ![t] = UiObject(t, Len(res[t]) + 1)]
    /\ pc' = [pc EXCEPT ![t] = "create_id"]
    /\ UNCHANGED <<mode, env, prog, out, status, res>>

\* ui.rs 50-53, 65: create_id, NEXT_ID.fetch_add(1) and the formatted id
create_id(t) ==
    /\ mode = "ui" /\ pc[t] = "create_id"
    /\ prog' = [prog EXCEPT ![t] = input[t].kind \o <<"-">> \o NatToText(env.next_id)]
    /\ env' = [env EXCEPT !.next_id = @ + 1]
    /\ pc' = [pc EXCEPT ![t] = "lock"]
    /\ UNCHANGED <<mode, out, status, input, res>>

\* ui.rs 66: REGISTRY.lock() returns when no thread holds the mutex
lock(t) ==
    /\ mode = "ui" /\ pc[t] = "lock" /\ env.lock = Unlocked
    /\ env' = [env EXCEPT !.lock = {t}]
    /\ pc' = [pc EXCEPT ![t] = "insert"]
    /\ UNCHANGED <<mode, prog, out, status, input, res>>

\* ui.rs 67: reg.insert(id.clone(), obj)
reg_insert(t) ==
    /\ mode = "ui" /\ pc[t] = "insert"
    /\ env' = [env EXCEPT !.registry = Put(@, prog[t], input[t])]
    /\ pc' = [pc EXCEPT ![t] = "return"]
    /\ UNCHANGED <<mode, prog, out, status, input, res>>

\* ui.rs 68-69: the id is returned and the guard dropped
return_id(t) ==
    /\ mode = "ui" /\ pc[t] = "return"
    /\ env' = [env EXCEPT !.lock = Unlocked]
    /\ res' = [res EXCEPT ![t] = Append(@, [id |-> prog[t], obj |-> input[t]])]
    /\ pc' = [pc EXCEPT ![t] = "idle"]
    /\ UNCHANGED <<mode, prog, out, status, input>>

Insert == \E t \in Threads : insert(t)

CreateId == \E t \in Threads : create_id(t)

Lock == \E t \in Threads : lock(t)

RegInsert == \E t \in Threads : reg_insert(t)

ReturnId == \E t \in Threads : return_id(t)

NextUi == Insert \/ CreateId \/ Lock \/ RegInsert \/ ReturnId

SpecUi == InitUi /\ [][NextUi]_vars

(***************************************************************************)
(* Properties of the arithmetic operators (SpecEval).                      *)
(***************************************************************************)
OperandX == env.vars[XName]

OperandY == env.vars[YName]

Evaluated(ops) == mode = "eval" /\ input.kind = "expr" /\ input.op \in ops

\* a numeric value n/d as numerator and denominator (an Int i is i/1)
NumOf(v) == IF v.tag = "Int" THEN v.i ELSE v.num

DenOf(v) == IF v.tag = "Int" THEN 1 ELSE v.den

\* the numerator of x op y over the denominator DenOf(x) * DenOf(y)
ExactNum(op, x, y) ==
    CASE op = "+" -> NumOf(x) * DenOf(y) + NumOf(y) * DenOf(x)
      [] op = "-" -> NumOf(x) * DenOf(y) - NumOf(y) * DenOf(x)
      [] op = "*" -> NumOf(x) * NumOf(y)

IsZero(v) == IsNum(v) /\ NumOf(v) = 0

\* C1: for numeric operands and op in {+, -, *}, Int op Int is the Int result,
\* every other pairing is the Float equal to the exact result of the promoted
\* operands (Int(2) + Float(1.5) = Float(3.5)); and the script
\* `x = 5; x = x - 2; print(x)` runs to the end having printed exactly 3.
C1_ArithmeticTable ==
    /\ (Evaluated({"+", "-", "*"}) /\ IsNum(OperandX) /\ IsNum(OperandY)) =>
          /\ res.ok
          /\ IF OperandX.tag = "Int" /\ OperandY.tag = "Int"
             THEN res.val = [tag |-> "Int", i |-> ExactNum(input.op, OperandX, OperandY)]
             ELSE /\ res.val.tag = "Float"
                  /\ res.val.den > 0
                  /\ res.val.num * DenOf(OperandX) * DenOf(OperandY)
                        = res.val.den * ExactNum(input.op, OperandX, OperandY)
    /\ (Evaluated({"+"}) /\ OperandX = VInt(2) /\ OperandY = VFloat(3, 2)) =>
          res.val = [tag |-> "Float", num |-> 7, den |-> 2]
    /\ (mode = "script" /\ input = ExampleDiff) =>
          /\ status # "failed"
          /\ status = "ok" => out = <<<<"3">>>>

C1_Witness ==
    /\ Evaluated({"-"}) /\ OperandX = VFloat(3, 2) /\ OperandY = VInt(2)
    /\ res.ok /\ res.val = [tag |-> "Float", num |-> -1, den |-> 2]

\* C2: `x / y` with numeric x and y and y zero (Int 0 or Float 0.0) fails with
\* the division-by-zero error raised by the / step and yields no value; the
\* script `x = 0; print(5 / x)` fails and prints nothing.
C2_DivisionByZeroFails ==
    /\ (Evaluated({"/"}) /\ IsNum(OperandX) /\ IsZero(OperandY)) =>
          ~res.ok /\ res.err = "Division by zero" /\ res.rule = "div"
    /\ (mode = "script" /\ input = ExampleDivZero) =>
          /\ status # "ok" /\ out = <<>>
          /\ status = "failed" => res = [err |-> "Division by zero"]

C2_Witness ==
    /\ Evaluated({"/"}) /\ OperandX.tag = "Float" /\ OperandY = VInt(0)
    /\ ~res.ok /\ res.err = "Division by zero"

\* the rules of eval_expr after the - step and after the * step
RulesAfter(op) ==
    IF op = "-" THEN {"mul", "div", "literal", "attr", "call", "ident", "unknown"}
    ELSE {"div", "literal", "attr", "call", "ident", "unknown"}

\* C3: for `x - y` and `x * y` whose operands evaluate to values that are not an
\* Int/Float combination, the operator step returns neither a value nor an
\* error: the result comes from a later rule, and the only failure is the last
\* rule's "Unknown expression"; where a variable named "x - y" is bound, the
\* identifier rule answers with it.
C3_MismatchFallsThrough ==
    (Evaluated({"-", "*"}) /\ ~(IsNum(OperandX) /\ IsNum(OperandY))) =>
        /\ res.rule \in RulesAfter(input.op)
        /\ ~res.ok => (res.rule = "unknown" /\ res.err = "Unknown expression")
        /\ (input.op = "-" /\ Has(env.vars, ExprText("-"))) =>
              (res.ok /\ res.rule = "ident" /\ res.val = env.vars[ExprText("-")])

C3_Witness ==
    /\ Evaluated({"-"}) /\ OperandX.tag = "Str" /\ OperandY.tag = "Int"
    /\ Has(env.vars, ExprText("-")) /\ res.ok /\ res.rule = "ident"

\* C4: `x + y` never fails once x and y have evaluated; unless both are numeric
\* (in particular when either is a Str) the result is the Str of the rendering
\* of x followed by the rendering of y.
C4_PlusIsTotal ==
    Evaluated({"+"}) =>
        /\ res.ok /\ res.rule = "add"
        /\ ~(IsNum(OperandX) /\ IsNum(OperandY)) =>
              res.val = [tag |-> "Str", s |-> ToText(OperandX) \o ToText(OperandY)]
        /\ (OperandX = VBool(TRUE) /\ OperandY = VInt(2)) => res.val.s = <<"t","r","u","e","2">>
        /\ (OperandX = VStr(<<"a","b">>) /\ OperandY = VFloat(-1, 2)) => res.val.s = <<"a","b","-","0",".","5">>
        /\ (OperandX = VNone /\ OperandY = VRange(0, 2)) => res.val.s = <<"N","o","n","e","r","a","n","g","e","(","0",","," ","2",")">>
        /\ (OperandX = VInt(-3) /\ OperandY = VStr(<<"a","b">>)) => res.val.s = <<"-","3","a","b">>

C4_Witness ==
    /\ Evaluated({"+"}) /\ OperandX = VNone /\ OperandY = VRange(0, 2)
    /\ res.ok /\ res.val = VStr(<<"N","o","n","e","r","a","n","g","e","(","0",","," ","2",")">>)

(***************************************************************************)
(* Properties of Return and of the method table of an Instance (SpecRun).  *)
(***************************************************************************)
\* C5: the statements after a Return in the same list are skipped: once the
\* Return at position k of the top-level list has been executed, run_stmts
\* executes no statement after it, so it is never past position k + 1.
C5_ReturnSkipsRest ==
    mode = "script" =>
        \A k \in 1..Len(prog) : (prog[k].kind = "Return" /\ k < pc) => pc = k + 1

\* the name a class statement or an assignment binds
BoundName(st) == IF st.kind = "Class" THEN st.name ELSE st.lhs

\* C9: a class statement or an assignment leaves the method table of every
\* Instance held in another variable as it was at construction; after
\* `class C` (m), `o = C()`, `class C` (m, n) the Instance o still has the
\* methods of the first class C, which are not those of the second.
C9_MethodsAreSnapshot ==
    /\ [][(mode = "script" /\ pc <= Len(prog) /\ pc' = pc + 1
            /\ prog[pc].kind \in {"Class", "Assign"}) =>
          \A n \in DOMAIN env.vars :
              (env.vars[n].tag = "Instance" /\ n # BoundName(prog[pc])) =>
                  /\ n \in DOMAIN env'.vars
                  /\ env'.vars[n].tag = "Instance"
                  /\ env'.vars[n].methods = env.vars[n].methods]_vars
    /\ [](( mode = "script" /\ status = "ok"
            /\ input = Join(<<ClassV1, MakeInstance, ClassV2>>, <<"\n">>)) =>
          /\ env.vars[<<"o">>].methods = ClassMethods(ParseToAst(ClassV1)[1].body)
          /\ DOMAIN env.vars[<<"C">>].methods = {<<"m">>, <<"n">>})

C9_Witness ==
    /\ mode = "script" /\ status = "ok"
    /\ Has(env.vars, <<"o">>) /\ env.vars[<<"o">>].tag = "Instance"
    /\ Has(env.vars, <<"C">>) /\ env.vars[<<"C">>].tag = "Class"
    /\ env.vars[<<"o">>].name = env.vars[<<"C">>].name
    /\ DOMAIN env.vars[<<"o">>].methods # DOMAIN env.vars[<<"C">>].methods

(***************************************************************************)
(* Properties of the call protocol (SpecCall).                             *)
(***************************************************************************)
Called(kinds) == mode = "call" /\ input.kind \in kinds

HasFrame(r) == "none" \notin DOMAIN r.frame

ArgOrNone(args, i) == IF i <= Len(args) THEN args[i] ELSE VNone

\* C6: a call of a user function or of a user method that returns yields None
\* to the caller whatever its Return statements evaluate to: f (`return a`),
\* g (`return 5` between two prints) and the methods show, two and m return
\* None, and g(7) has printed 7 before and after its Return.
C6_UserCallYieldsNone ==
    Called({"function", "method"}) =>
        /\ res.ok => res.val = VNone
        /\ (input.kind = "function" /\ input.name \in {<<"f">>, <<"g">>}) => res.ok
        /\ (input.kind = "method" /\ input.name \in {<<"s","h","o","w">>, <<"t","w","o">>, <<"m">>}) => res.ok
        /\ (input.name = <<"g">> /\ input.args = <<VInt(7)>>) => out = <<<<"7">>, <<"7">>>>

C6_Witness ==
    /\ Called({"function"}) /\ input.name = <<"f">> /\ input.args = <<VInt(7), VInt(8)>>
    /\ res.ok /\ res.val = VNone

\* the declared parameters of the called method other than self, in order
OtherParams ==
    SelectSeq(env.vars[input.obj].methods[input.name].params, LAMBDA p : p # SelfName)

\* C7: the body of a user method called as obj.m(a1, ..., an) runs with self
\* bound to the Instance and the i-th parameter after self bound to the i-th
\* argument, or to None when there is no i-th argument.
C7_MethodParamsSkipSelf ==
    (Called({"method"}) /\ HasFrame(res)) =>
        /\ res.frame.vars[SelfName] = env.vars[input.obj]
        /\ \A i \in 1..Len(OtherParams) :
              res.frame.vars[OtherParams[i]] = ArgOrNone(input.args, i)

\* C8: C(v) for class C with __init__(self, x): self.x = x is an Instance of C
\* whose fields are exactly x = v; a parameter of __init__ other than self
\* without an argument is None (C(), E(v)); class D without __init__ gives an
\* Instance without fields; the Instance has the methods of the class.
C8_ConstructorBindsFields ==
    Called({"construct"}) =>
        /\ res.ok
        /\ res.val.tag = "Instance" /\ res.val.name = input.name
        /\ res.val.methods = env.vars[input.name].methods
        /\ input.name = <<"C">> =>
              res.val.fields = (<<"x">> :> ArgOrNone(input.args, 1))
        /\ input.name = <<"E">> =>
              res.val.fields = (<<"x">> :> ArgOrNone(input.args, 1))
                                  @@ (<<"y">> :> ArgOrNone(input.args, 2))
        /\ input.name = <<"D">> => res.val.fields = EmptyMap

C8_Witness ==
    /\ Called({"construct"}) /\ input.name = <<"C">> /\ input.args = <<VInt(7)>>
    /\ res.ok /\ res.val.tag = "Instance" /\ res.val.fields[<<"x">>] = VInt(7)

\* the declared parameters of the called user function
FunctionParams == env.funcs[input.name].params

Running(src) == mode = "script" /\ input = src

\* C11: `for v in range(s, e)` runs its body once for each of s, s+1, ..., e-1
\* in that order, binding v in the Environment of the statement itself: after
\* a loop with e > s the following statement sees v = e-1, and with e <= s the
\* body has not run and v is unbound (the following print(v) fails); the
\* script `for i in range(0, 3): print(i)` prints 0, 1, 2.
C11_ForOverRange ==
    /\ \A s \in RangeBounds, e \in RangeBounds :
          Running(ForScript(s, e)) =>
              /\ pc = 1 => out = <<>>
              /\ pc = 2 =>
                    /\ status = "running" => out = CountUp(s, e)
                    /\ e > s => (Has(env.vars, <<"v">>) /\ env.vars[<<"v">>] = VInt(e - 1))
                    /\ e <= s => ~Has(env.vars, <<"v">>)
              /\ e > s =>
                    /\ status # "failed"
                    /\ status = "ok" => out = CountUp(s, e) \o <<IntToText(e - 1)>>
              /\ e <= s =>
                    /\ status # "ok"
                    /\ status = "failed" =>
                          (out = <<>> /\ res = [err |-> "Unknown expression"])
    /\ Running(ExampleLoop) =>
          /\ status # "failed"
          /\ status = "ok" => out = <<<<"0">>, <<"1">>, <<"2">>>>

C11_Witness ==
    /\ Running(ForScript(0 - 1, 2)) /\ status = "ok"
    /\ out = <<<<"-","1">>, <<"0">>, <<"1">>, <<"1">>>>
    /\ env.vars[<<"v">>] = VInt(1)

\* an import statement naming a module without a file is about to run
ImportsMissing ==
    /\ mode = "script" /\ status = "running" /\ pc <= Len(prog)
    /\ prog[pc].kind = "Import"
    /\ ~Has(Files, ModulePath(prog[pc].name))

\* what import of a missing module leaves behind: the step succeeds, and the
\* variable and the registry entry of that name hold the same Dict
ImportedPseudoModule ==
    /\ status' = "running" /\ pc' = pc + 1
    /\ Has(env'.vars, prog[pc].name)
    /\ env'.vars[prog[pc].name].tag = "Dict"
    /\ Has(env'.modules, prog[pc].name)
    /\ env'.modules[prog[pc].name] = env'.vars[prog[pc].name].map
    /\ \A v \in DOMAIN env.vars :
          /\ Has(env'.vars[prog[pc].name].map, v)
          /\ env'.vars[prog[pc].name].map[v] = env.vars[v]

\* C12 as stated: import of a missing module never fails; the Dict bound to
\* the name and recorded in the registry has d[f] = Str(f) for every function
\* f registered at import time and every variable with its value.
C12_PseudoModuleAllFunctions ==
    [][ImportsMissing =>
          /\ ImportedPseudoModule
          /\ \A f \in DOMAIN env.funcs :
                /\ Has(env'.vars[prog[pc].name].map, f)
                /\ env'.vars[prog[pc].name].map[f] = VStr(f)]_vars

\* C12, amended: as above, with d[f] = Str(f) for every registered function f
\* that is not also the name of a variable (a variable's value takes the entry).
C12_PseudoModule ==
    [][ImportsMissing =>
          /\ ImportedPseudoModule
          /\ \A f \in (DOMAIN env.funcs) \ (DOMAIN env.vars) :
                /\ Has(env'.vars[prog[pc].name].map, f)
                /\ env'.vars[prog[pc].name].map[f] = VStr(f)]_vars

C12_Witness ==
    /\ mode = "script" /\ status = "ok"
    /\ Has(env.vars, <<"n","o","m","o","d">>) /\ env.vars[<<"n","o","m","o","d">>].tag = "Dict"
    /\ Has(env.funcs, <<"g">>) /\ Has(env.funcs, <<"a","b","s">>)
    /\ env.vars[<<"n","o","m","o","d">>].map[<<"g">>] = VInt(2)
    /\ env.vars[<<"n","o","m","o","d">>].map[<<"a","b","s">>] = VStr(<<"a","b","s">>)
    /\ env.modules[<<"n","o","m","o","d">>] = env.vars[<<"n","o","m","o","d">>].map

AbortErrors ==
    {"Division by zero", "Unknown expression", "Undefined function",
     "Undefined method call", "for-loop over non-iterable"}

\* C13: a failing statement ends the run: run_stmts returns its failure (failed
\* is final), no statement after it in document order has run, whether in the
\* same list, an enclosing loop body or list, or the calling frame (they all
\* print 9), try/except blocks do not catch it, and what ran before is kept
\* (a = 1, the loop variable i = 0, the lines printed before).
C13_FailureAbortsRun ==
    /\ [](\A src \in AbortScripts :
            Running(src) =>
                /\ status # "ok"
                /\ \A k \in 1..Len(out) : out[k] # <<"9">>
                /\ status = "failed" =>
                      /\ \E msg \in AbortErrors : res = [err |-> msg]
                      /\ out \in {<<>>, <<<<"0">>>>}
                      /\ Has(env.vars, <<"a">>) /\ env.vars[<<"a">>] = VInt(1)
                      /\ (\E F \in FailingStatements : src \in {AbortFor(F), AbortNested(F)})
                            => (Has(env.vars, <<"i">>) /\ env.vars[<<"i">>] = VInt(0)))
    /\ [][status # "failed"]_vars

C13_Witness ==
    /\ Running(AbortNested(<<"p","r","i","n","t","(","1"," ","/"," ","0",")">>)) /\ status = "failed"
    /\ res = [err |-> "Division by zero"] /\ out = <<>>
    /\ env.vars[<<"a">>] = VInt(1) /\ env.vars[<<"i">>] = VInt(0)

\* C16: the Person example runs to the end and prints exactly `Hello, Alice`.
C16_PersonExample ==
    Running(PersonScript) =>
        /\ status # "failed"
        /\ out \in {<<>>, <<<<"H","e","l","l","o",","," ","A","l","i","c","e">>>>}
        /\ status = "ok" => out = <<<<"H","e","l","l","o",","," ","A","l","i","c","e">>>>

C16_Witness ==
    /\ Running(PersonScript) /\ status = "ok" /\ out = <<<<"H","e","l","l","o",","," ","A","l","i","c","e">>>>
    /\ env.vars[<<"p">>].fields = (<<"n","a","m","e">> :> VStr(<<"A","l","i","c","e">>))

\* C19: the arguments of a call are the pieces of the argument text between
\* top-level commas: len("a,b") has the one argument "a,b" and is 3, and
\* len(str(12, 3)) has the one argument str(12, 3) and is 2.
C19_ArgsSplitAtTopLevel ==
    /\ Running(CallWithStringComma) =>
          (status # "failed" /\ (status = "ok" => out = <<<<"3">>>>))
    /\ Running(CallWithNestedCall) =>
          (status # "failed" /\ (status = "ok" => out = <<<<"2">>>>))

\* C20: the elif block is part of the If statement before it, and of an if/elif
\* chain one body at most is executed: with both conditions truthy only the
\* body of the if runs.
C20_ElifIsNested ==
    Running(ElifScript) =>
        /\ Len(prog) = 2
        /\ status = "ok" => out = <<<<"1">>>>

(***************************************************************************)
(* Properties of the parser.                                               *)
(***************************************************************************)
IsComment(text) == StartsWith(TrimStart(text), <<"#">>)

\* the source without its comment lines
WithoutComments(src) ==
    Join(SelectSeq(SourceLines(src), LAMBDA l : ~IsComment(l)), <<"\n">>)

\* C14: comment lines are ignored by the parser: a source and the same source
\* without its comment lines (whatever their position and indentation) have
\* the same statement tree.
C14_CommentsIgnored ==
    (mode = "parse" /\ status = "parsed") =>
        (res.ok /\ res.body = ParseToAst(WithoutComments(input)))

\* the length of the longest prefix of q whose lines are indented by more than k
RECURSIVE RunLength(_, _)
RunLength(k, q) ==
    IF q = <<>> \/ q[1].indent <= k THEN 0 ELSE 1 + RunLength(k, Tail(q))

\* the statement tree of a list of lines by the rule of C15: a header takes
\* the longest run of following lines indented by more than it as its body,
\* and the list goes on with the line after the run
RECURSIVE BlockTree(_)
BlockTree(q) ==
    IF q = <<>> THEN <<>>
    ELSE IF IsComment(q[1].text) THEN BlockTree(Tail(q))
    ELSE IF EndsWith(q[1].text, <<":">>)
    THEN LET n == RunLength(q[1].indent, Tail(q))
         IN  <<ClassifyHeader(TrimEndMatches(q[1].text, ":"),
                              BlockTree(SubSeq(q, 2, n + 1)))>>
             \o BlockTree(SubSeq(q, n + 2, Len(q)))
    ELSE <<ParseSimpleStatement(q[1].text)>> \o BlockTree(Tail(q))

\* C15: the body of a header at indent k is the statement tree of exactly the
\* longest run of the non-blank lines after it whose indent is at least k+1;
\* the first line at indent k or less ends it and is parsed into an enclosing
\* list, and the statements of a list keep the order of their lines.
C15_BodyIsIndentedRun ==
    (mode = "parse" /\ status = "parsed") =>
        res.body = BlockTree(IndentedLines(SourceLines(input)))

C15_Witness ==
    /\ mode = "parse" /\ status = "parsed"
    /\ input = <<"i","f"," ","x",":","\n"," "," ","i","f"," ","x",":","\n"," ","a"," ","="," ","1">>
    /\ res.body = <<SIf(<<[cond |-> <<"x">>,
                           body |-> <<SIf(<<[cond |-> <<"x">>, body |-> <<>>]>>, <<>>),
                                      SAssign(<<"a">>, <<"1">>)>>]>>, <<>>)>>

\* C17: check_script reports no error for the well-formed script of its test
\* and at least one error for the assignment without a right-hand side.
C17_CheckReportsSyntaxErrors ==
    (mode = "parse" /\ status = "checked") =>
        /\ input = CheckValid => res.errors = <<>>
        /\ input = CheckMissingRhs => res.errors # <<>>

(***************************************************************************)
(* Properties of the interactive session.                                  *)
(***************************************************************************)
\* C18: an input line that fails never ends the session: after it the loop
\* reads the next line, with the same Environment (the bindings of earlier
\* inputs are kept).
C18_FailureKeepsSession ==
    [][(mode = "repl" /\ ~res'.ok) => (status' = "reading" /\ env' = env)]_vars

(***************************************************************************)
(* Properties of the resolution of a called name.                          *)
(***************************************************************************)
Resolved(name) == mode = "resolve" /\ input.kind = "call" /\ input.name = name

\* C21: name(args) invokes the entry of the function table when there is one,
\* whatever the variable of that name holds (the user function f prints 1 and
\* yields None, the native len yields the length of its argument); without an
\* entry, a variable holding a Class is constructed (its __init__ prints 2 and
\* the value is an Instance of it); otherwise the call fails with Undefined
\* function, whether the name is unbound or bound to an Int or an Instance.
\* A call of a name never changes the Environment.
C21_CallResolutionOrder ==
    /\ [](\A name \in CalledNames :
            Resolved(name) =>
                IF Has(env.funcs, name)
                THEN /\ res.ok
                     /\ env.funcs[name].kind = "User" => (res.val = VNone /\ out = <<<<"1">>>>)
                     /\ env.funcs[name].kind = "Native" =>
                           /\ out = <<>>
                           /\ res.val = VInt(IF input.args # <<>> /\ input.args[1].tag = "Str"
                                             THEN Len(input.args[1].s) ELSE 0)
                ELSE IF Has(env.vars, name) /\ env.vars[name].tag = "Class"
                THEN /\ res.ok /\ out = <<<<"2">>>>
                     /\ res.val.tag = "Instance" /\ res.val.name = name
                ELSE ~res.ok /\ res.err = "Undefined function" /\ out = <<>>)
    /\ [][mode = "resolve" => env' = env]_vars

C21_Witness ==
    /\ Resolved(<<"f">>) /\ input.args = <<VInt(7)>>
    /\ Has(env.funcs, <<"f">>) /\ Has(env.vars, <<"f">>) /\ env.vars[<<"f">>].tag = "Class"
    /\ res.ok /\ res.val = VNone /\ out = <<<<"1">>>>

(***************************************************************************)
(* Properties of the scripts of SpecFrame.                                 *)
(***************************************************************************)
\* the statement about to run is an assignment of rhs to a dotted target
AssignsDotted(rhs) ==
    /\ mode = "script" /\ status = "running" /\ pc <= Len(prog)
    /\ prog[pc].kind = "Assign"
    /\ prog[pc].rhs = rhs
    /\ ContainsChar(prog[pc].lhs, ".")

\* the target text before and after its first dot
TargetObj == SplitOnce(prog[pc].lhs, <<".">>).l

TargetAttr == SplitOnce(prog[pc].lhs, <<".">>).r

\* m2 is m1 with key k set to v and nothing else changed
SetsOnly(m1, m2, k, v) ==
    /\ DOMAIN m2 = DOMAIN m1 \cup {k}
    /\ m2[k] = v
    /\ \A n \in DOMAIN m1 : n # k => m2[n] = m1[n]

\* what the assignment of v to the dotted target does
DottedAssignEffect(v) ==
    /\ status' = "running" /\ pc' = pc + 1 /\ out' = out
    /\ env'.funcs = env.funcs /\ env'.modules = env.modules
    /\ IF Has(env.vars, TargetObj) /\ env.vars[TargetObj].tag = "Instance"
       THEN /\ DOMAIN env'.vars = DOMAIN env.vars
            /\ \A n \in DOMAIN env.vars : n # TargetObj => env'.vars[n] = env.vars[n]
            /\ env'.vars[TargetObj].tag = "Instance"
            /\ env'.vars[TargetObj].name = env.vars[TargetObj].name
            /\ env'.vars[TargetObj].methods = env.vars[TargetObj].methods
            /\ SetsOnly(env.vars[TargetObj].fields, env'.vars[TargetObj].fields, TargetAttr, v)
       ELSE IF Has(env.vars, TargetObj) /\ env.vars[TargetObj].tag = "Dict"
       THEN /\ DOMAIN env'.vars = DOMAIN env.vars
            /\ \A n \in DOMAIN env.vars : n # TargetObj => env'.vars[n] = env.vars[n]
            /\ env'.vars[TargetObj].tag = "Dict"
            /\ SetsOnly(env.vars[TargetObj].map, env'.vars[TargetObj].map, TargetAttr, v)
       ELSE SetsOnly(env.vars, env'.vars, prog[pc].lhs, v)

\* C22: an assignment to obj.attr (the text before and after the first dot of
\* the target) sets exactly that field of the Instance, or that entry of the
\* Dict, bound to obj; with obj unbound or bound to anything else it succeeds
\* and binds the variable named by the whole target text; every other binding,
\* the functions and the module registry stay as they were.  The right-hand
\* side is a literal or a bound variable; one that fails makes the statement
\* fail before the target is looked at, with the Environment unchanged.
C22_DottedAssign ==
    /\ [][AssignsDotted(<<"7">>) => DottedAssignEffect(VInt(7))]_vars
    /\ [][AssignsDotted(<<"z">>) => DottedAssignEffect(VInt(1))]_vars
    /\ [][AssignsDotted(<<"n","o","p","e">>) => (status' = "failed" /\ env' = env)]_vars

C22_Witness ==
    /\ \E p \in DottedPreludes : Running(Dotted(p, <<"o",".","x",".","y">>))
    /\ status = "failed"
    /\ Has(env.vars, <<"o">>) /\ env.vars[<<"o">>].tag = "Instance"
    /\ env.vars[<<"o">>].fields = (<<"x",".","y">> :> VInt(1))
    /\ ~Has(env.vars, <<"o",".","x",".","y">>)

\* an import statement naming a module whose file exists is about to run
ImportsFile(name) ==
    /\ mode = "script" /\ status = "running" /\ pc <= Len(prog)
    /\ prog[pc].kind = "Import" /\ prog[pc].name = name
    /\ Has(Files, ModulePath(name))

Argv == <<"a","r","g","v">> :> VList(<<>>)

\* the import of name succeeds, printing lines and recording exports
ImportRecords(name, lines, exports) ==
    /\ status' = "running" /\ pc' = pc + 1
    /\ out' = out \o lines
    /\ env'.vars = env.vars /\ env'.funcs = env.funcs
    /\ SetsOnly(env.modules, env'.modules, name, exports)

\* the import fails with err, and the importer is as before
ImportFails(err) ==
    /\ status' = "failed" /\ res' = [err |-> err]
    /\ env' = env

\* C23: the file of an imported module runs in an Environment of its own that
\* holds the natives and argv only: a file reading the importer's x or calling
\* the importer's f fails, one using natives works, and a function the file
\* defines stays in the file's Environment.  The final variables of that
\* Environment become modules[name]; the importer's variables and functions
\* are unchanged, no variable of the module's name is bound, and the module's
\* k does not touch the importer's k.
C23_ImportFile ==
    /\ [][ImportsFile(<<"m">>) => ImportRecords(<<"m">>, <<<<"7">>>>, Argv @@ (<<"k">> :> VInt(7)))]_vars
    /\ [][ImportsFile(<<"n","a","t","i","v","e","s">>) =>
            ImportRecords(<<"n","a","t","i","v","e","s">>, <<>>, Argv @@ (<<"n">> :> VInt(2)))]_vars
    /\ [][ImportsFile(<<"d","e","f","s">>) =>
            ImportRecords(<<"d","e","f","s">>, <<<<"1">>>>, Argv @@ (<<"y">> :> VInt(2)))]_vars
    /\ [][ImportsFile(<<"u","s","e","s","x">>) => ImportFails("Unknown expression")]_vars
    /\ [][ImportsFile(<<"u","s","e","s","f">>) => ImportFails("Undefined function")]_vars
    /\ [](\A p \in ImporterPreludes, n \in FileModules :
            Running(ImportFile(p, n)) => (~Has(env.vars, n) /\ status # "ok"))

C23_Witness ==
    /\ Running(ImportFile(<<"k"," ","="," ","1">>, <<"m">>)) /\ status = "failed"
    /\ out = <<<<"7">>>> /\ res = [err |-> "Unknown expression"]
    /\ env.vars[<<"k">>] = VInt(1) /\ ~Has(env.vars, <<"m">>)
    /\ env.modules = (<<"m">> :> (Argv @@ (<<"k">> :> VInt(7))))

\* every If of a statement list, at any depth, has one branch and no else-body
RECURSIVE IfsAreSingle(_)
IfsAreSingle(stmts) ==
    \A k \in 1..Len(stmts) :
        CASE stmts[k].kind = "If" ->
                /\ Len(stmts[k].branches) = 1
                /\ stmts[k].else_block = <<>>
                /\ IfsAreSingle(stmts[k].branches[1].body)
          [] stmts[k].kind \in {"Else", "While", "For", "Def", "Class", "Block"} ->
                IfsAreSingle(stmts[k].body)
          [] OTHER -> TRUE

\* C26: every If the parser produces has exactly one (condition, body) pair
\* and an empty else-body, and `else:` becomes an Else statement that is the
\* next sibling of the If; an Else statement runs its body whenever it is
\* reached: after an if whose condition was truthy both bodies have run, and
\* when the condition fails the else is not reached.
C26_ElseIsSibling ==
    /\ mode = "script" => IfsAreSingle(prog)
    /\ \A c \in {<<"0">>, <<"1">>} :
          Running(IfElseTop(c)) =>
              /\ <<prog[2].kind, prog[3].kind>> = <<"If", "Else">>
              /\ prog[3].body = <<SPrint(<<"2">>)>>
              /\ status # "failed"
              /\ status = "ok" =>
                    out = (IF c = <<"1">> THEN <<<<"1">>>> ELSE <<>>) \o <<<<"2">>, <<"3">>>>
    /\ Running(IfElseFailing) => (status # "ok" /\ out = <<>>)
    /\ Running(IfElseInFor) =>
          (status # "failed" /\ (status = "ok" => out = <<<<"2">>, <<"1">>, <<"2">>>>))
    /\ Running(IfElseInDef) =>
          (status # "failed" /\ (status = "ok" => out = <<<<"1">>, <<"2">>, <<"2">>>>))
    /\ Running(ElseAlone) => (status # "failed" /\ (status = "ok" => out = <<<<"2">>>>))
    /\ Running(IfElifElse) =>
          /\ <<prog[2].kind, prog[3].kind, prog[4].kind>> = <<"If", "If", "Else">>
          /\ status # "failed"
          /\ status = "ok" => out = <<<<"1">>, <<"4">>, <<"2">>>>

C26_Witness ==
    /\ Running(IfElseTop(<<"1">>)) /\ status = "ok"
    /\ out = <<<<"1">>, <<"2">>, <<"3">>>>
    /\ prog[2] = SIf(<<[cond |-> <<"x">>, body |-> <<SPrint(<<"1">>)>>]>>, <<>>)

\* C27: a generic Block statement (a header such as try, except, with ...)
\* runs none of the statements of its body, whether it prints, assigns,
\* defines, imports or would fail, and leaves variables, functions and modules
\* as they were; the statement after it runs next.
C27_BlockIsSkipped ==
    /\ [][(mode = "script" /\ status = "running" /\ pc <= Len(prog) /\ prog[pc].kind = "Block")
            => (status' = "running" /\ pc' = pc + 1 /\ env' = env /\ out' = out)]_vars
    /\ [](\A src \in BlockScripts :
            Running(src) =>
                /\ status # "failed"
                /\ ~Has(env.funcs, <<"f">>) /\ ~Has(env.vars, <<"n","o","m","o","d">>)
                /\ Has(env.vars, <<"a">>) => env.vars[<<"a">>] = VInt(0)
                /\ status = "ok" => out = <<<<"0">>>>)

C27_Witness ==
    /\ Running(BlockTop(<<"t","r","y">>)) /\ pc = 3 /\ status = "running"
    /\ prog[2].kind = "Block" /\ Len(prog[2].body) = 5
    /\ env.vars[<<"a">>] = VInt(0) /\ out = <<>>

\* the statement about to run is the expression statement text
RunsExpr(text) ==
    /\ mode = "script" /\ status = "running" /\ pc <= Len(prog)
    /\ prog[pc].kind = "Expr" /\ prog[pc].expr = text

\* C29: a call of a user method runs on a copy of the Instance: o.set() writes
\* self.x and self.y and prints the new x, and afterwards the caller's o (its
\* fields and methods) and everything else of the caller's Environment are as
\* before; an assignment of the call's value binds only its target.  The
\* Instance returned by a construction is the self that __init__ has written.
C29_MethodRunsOnCopy ==
    /\ [][RunsExpr(<<"o",".","s","e","t","(",")">>) =>
            (status' = "running" /\ env' = env /\ out' = out \o <<<<"9">>>>)]_vars
    /\ [](Running(MethodCopyStatement) =>
            /\ pc >= 3 => env.vars[<<"o">>].fields = (<<"x">> :> VInt(1))
            /\ status # "ok"
            /\ status = "failed" =>
                  (out = <<<<"9">>, <<"1">>>> /\ res = [err |-> "Unknown expression"]))
    /\ [](Running(MethodCopyAssign) =>
            /\ pc >= 3 => env.vars[<<"o">>].fields = (<<"x">> :> VInt(1))
            /\ pc >= 4 => env.vars[<<"z">>] = VNone
            /\ status # "failed"
            /\ status = "ok" => out = <<<<"9">>, <<"1">>, <<"N","o","n","e">>>>)

C29_Witness ==
    /\ Running(MethodCopyStatement) /\ pc = 4 /\ out = <<<<"9">>>>
    /\ env.vars[<<"o">>].fields = (<<"x">> :> VInt(1))
    /\ Has(env.vars[<<"o">>].methods, <<"s","e","t">>)

(***************************************************************************)
(* Properties of the UI registry.                                          *)
(***************************************************************************)
\* the calls that have returned: (thread, index) pairs
Returned == {c \in Threads \X (1..MaxCalls) : c[2] <= Len(res[c[1]])}

AllReturned == \A t \in Threads : Len(res[t]) = MaxCalls /\ pc[t] = "idle"

\* C24: under every interleaving of insert calls from several threads the
\* identifiers returned are pairwise distinct, and the registry maps each of
\* them to the object passed to its call: at every moment for the calls
\* that have returned, and with nothing else in it once all have returned.
C24_ConcurrentInsert ==
    mode = "ui" =>
        /\ \A c \in Returned, d \in Returned :
              c # d => res[c[1]][c[2]].id # res[d[1]][d[2]].id
        /\ \A c \in Returned :
              /\ res[c[1]][c[2]].obj = UiObject(c[1], c[2])
              /\ Has(env.registry, res[c[1]][c[2]].id)
              /\ env.registry[res[c[1]][c[2]].id] = UiObject(c[1], c[2])
        /\ AllReturned =>
              /\ DOMAIN env.registry = {res[c[1]][c[2]].id : c \in Returned}
              /\ env.lock = Unlocked

C24_Witness ==
    /\ mode = "ui" /\ AllReturned
    /\ res[1][1].id = <<"w","i","n","d","o","w","-","2">> /\ res[2][1].id = <<"b","u","t","t","o","n","-","1">>
    /\ Cardinality(DOMAIN env.registry) = MaxThreads * MaxCalls

\* the number of statement nodes of a statement list, at all depths
RECURSIVE StmtCount(_)
StmtCount(stmts) ==
    IF stmts = <<>> THEN 0
    ELSE (CASE Head(stmts).kind = "If" -> 1 + StmtCount(Head(stmts).branches[1].body)
                                            + StmtCount(Head(stmts).else_block)
            [] Head(stmts).kind \in {"Else", "While", "For", "Def", "Class", "Block"} ->
                  1 + StmtCount(Head(stmts).body)
            [] OTHER -> 1)
         + StmtCount(Tail(stmts))

\* the lines of a source that are neither blank nor comments
StatementLines(src) ==
    SelectSeq(SourceLines(src),
              LAMBDA l : /\ Trim(l) # <<>>
                         /\ ~StartsWith(SubSeq(l, LeadingSpaces(l) + 1, Len(l)), <<"#">>))

ChainOf(op) == mode = "chain" /\ input.kind = "expr" /\ input.op = op

\* C28: a chain of one operator associates to the right: for Int operands
\* `x - y - z` is x - (y - z), and `x / y / z` is x / (y / z) with i64
\* division, Division by zero where z or y / z is 0.
C28_ChainAssociatesRight ==
    LET a == env.vars[XName].i
        b == env.vars[YName].i
        c == env.vars[ZName].i
    IN  /\ ChainOf("-") => res.ok /\ res.val = VInt(a - (b - c))
        /\ ChainOf("/") =>
              IF c = 0 \/ TruncDiv(b, c) = 0
              THEN ~res.ok /\ res.err = "Division by zero"
              ELSE res.ok /\ res.val = VInt(TruncDiv(a, TruncDiv(b, c)))

\* 3 - 2 - 1 is 2, where (3 - 2) - 1 is 0
C28_Witness ==
    /\ ChainOf("-")
    /\ env.vars[XName] = VInt(3) /\ env.vars[YName] = VInt(2) /\ env.vars[ZName] = VInt(1)
    /\ res.ok /\ res.val = VInt(2)

\* 3 / 3 / 2 is 3, where (3 / 3) / 2 is 0
C28_WitnessDiv ==
    /\ ChainOf("/")
    /\ env.vars[XName] = VInt(3) /\ env.vars[YName] = VInt(3) /\ env.vars[ZName] = VInt(2)
    /\ res.ok /\ res.val = VInt(3)

\* the loop of start is at its top, about to read
AtLoopTop(s) == s \in {"reading", "exhausted"}

IsQuit(line) == Trim(line) \in {<<"e","x","i","t">>, <<"q","u","i","t">>}

\* C30: the loop of start is left only by a line that trims to exit or quit;
\* every other read, an empty line and the empty read at the end of the input
\* included, is followed by another iteration, so that on exhausted input the
\* loop goes on for ever.
C30_OnlyQuitLeavesLoop ==
    [][mode = "repl" =>
          /\ status' = "ended" => IsQuit(input')
          /\ ~IsQuit(input') => AtLoopTop(status')
          /\ status = "exhausted" => status' = "exhausted"]_vars

\* C30 without the inputs that make the evaluator panic: start returns only
\* on exit or quit, and exhausted input is read again and again
C30_ReturnsOnlyOnQuit ==
    [][mode = "repl" =>
          /\ status' = "ended" => IsQuit(input')
          /\ (~IsQuit(input') /\ ~Panicked(res')) => AtLoopTop(status')
          /\ status = "exhausted" => status' = "exhausted"]_vars

====
